---- MODULE Spec2Model ----
(***************************************************************************)
(* Gateway supervisor (Electron main process) and the config-migration     *)
(* engine of the desktop application.                                      *)
(*                                                                         *)
(*   Spec / LiveSpec : the main process: app.whenReady handler, the        *)
(*                     before-quit handler, gateway-retry, and the child   *)
(*                     process it supervises.                              *)
(*   SpecTok         : the main process over every kind of config file.    *)
(*   SpecUi          : one launch together with the page's useGatewayState *)
(*                     hook and the IPC messages between the two.          *)
(*   SpecMig         : runConfigMigrations over the registered migrations. *)
(*   SpecMigIO       : the same with each file write as open + write, and  *)
(*                     with writes that fail.                              *)
(***************************************************************************)
EXTENDS Integers, Sequences, FiniteSets, TLC

VARIABLES
  \* ---- main process (one Electron process per run) ----
  pc,            \* position of the app.whenReady handler
  port,          \* const port  (0 while unresolved)
  token,         \* const token ("" while unresolved)
  gatewayState,  \* let gatewayState: GatewayState | null
  gateway,       \* let gateway: ChildProcess | null  ("null" / "child")
  broadcasts,    \* calls of broadcastGatewayState of this run, in order
  win,           \* the BrowserWindow: "none" / "open" / "destroyed"
  elapsed,       \* Date.now() - start inside waitForPortOpen, in poll intervals
  quitPc,        \* position of the before-quit handler
  quitChild,     \* const child of the before-quit handler
  appExited,     \* the main process of this run is gone
  exitVia,       \* "none" / "quit" / "retry"
  run,           \* number of the current run (a relaunch starts the next)
  \* ---- environment ----
  child,         \* the child process spawned by this run
  orphans,       \* children of earlier runs that are still running
  busy,          \* loopback ports bound by unrelated programs
  configFile,    \* <stateDir>/openclaw.json, as the supervisor reads it
  \* ---- runConfigMigrations ----
  mpc,           \* position inside runConfigMigrations ("idle": not running)
  cfgFile,       \* the file at configPath
  stateFile,     \* <stateDir>/desktop-state.json
  currentVersion,\* const currentVersion
  pending,       \* the migrations the for-loop has still to visit
  cfg,           \* let cfg: the parsed document, mutated in place
  configChanged, \* let configChanged
  appliedUpTo,   \* let appliedUpTo
  applyLog,      \* every call of a migration's apply: run, version, outcome
  runLog,        \* one record per run of the engine, the current one last
  \* ---- renderer (the page in the BrowserWindow) ----
  uiPc,          \* position of the effect of useGatewayState
  uiState,       \* const [state, setState] of useGatewayState
  chan,          \* messages from the main process to the page, in flight
  \* ---- createTailBuffer(maxChars) ----
  maxChars,      \* the budget given at construction
  buf,           \* let buf
  pushed,        \* every chunk pushed so far, concatenated
  \* ---- pickPort(preferred) ----
  ppPc,          \* where the call stands
  preferred,     \* its argument
  servers,       \* the probe servers created so far, oldest first
  isFree,        \* const isFree, "unset" until the first promise settles
  addr,          \* server.address().port of the port-0 bind, 0 before it
  result,        \* the port the call resolved with, 0 before that
  taken,         \* ports other processes hold while the call runs
  heldAtZero,    \* was preferred held by another process at the port-0 bind
  \* ---- AccountTab: log out ----
  confirmLogoutOpen,  \* useState(false)
  logoutBusy,         \* useState(false)
  logoutCalls,        \* the handleLogout thunks dispatched, oldest first
  events,             \* what the user did in the footer and the dialog
  \* ---- AccountTab: top up ----
  topUpAmount,        \* useState("10.00"): the value of the number input
  topUps,             \* the calls of handleTopUp, oldest first
  desktopApi,         \* what getDesktopApiOrNull() returns
  \* ---- waitForPortOpen, by the clock ----
  attemptAt,     \* Date.now() - start when the last attempt began, -1 before
  connectedAt,   \* Date.now() - start at the 'connect' event, -1 without one
  \* ---- one migration's apply, called on its own ----
  applyVersion,  \* the version of the migration called, 0 when none is
  applyDoc,      \* the document object the calls are handed
  applyCalls,    \* what each call found, left behind and returned
  \* ---- App: navigation on the gateway state ----
  appState,      \* const state = useGatewayState(), by its kind
  pathname,      \* location.pathname
  didAutoNavRef, \* didAutoNavRef.current
  onboarded,     \* localStorage "openclaw.desktop.onboarded.v1" is "1"
  effectDue,     \* a render with changed state or pathname awaits its effects
  navLog,        \* the navigations so far: who navigated, from where, to where
  \* ---- useGatewayState, mounted and unmounted ----
  hookPc,        \* where the async function of the effect stands
  cancelled,     \* let cancelled
  unsub,         \* let unsub: "null", or "set" once onGatewayState returned
  listeners,     \* the handlers on "gateway-state" this hook has registered
  delivered,     \* the "gateway-state" events that reached the page
  setCalls,      \* the calls of setState: the state set, and whether the
                 \* component was already unmounted
  \* ---- WelcomePage: the wizard ----
  step,          \* useState<StepId>("config")
  error,         \* useState<string | null>(null), "null" when null
  fields,        \* anthropicKey, telegramToken and telegramUserId, by step
  saved          \* the steps whose requests were all answered, and "skip"
                 \* once Skip was clicked

supVars == <<pc, port, token, gatewayState, gateway, broadcasts, win, elapsed,
             quitPc, quitChild, appExited, exitVia, run, child, orphans, busy,
             configFile>>

migVars == <<mpc, cfgFile, stateFile, currentVersion, pending, cfg,
             configChanged, appliedUpTo, applyLog, runLog>>

uiVars == <<uiPc, uiState, chan>>

tailVars == <<maxChars, buf, pushed>>

\* the state of the parts that are modelled on their own
ppVars == <<ppPc, preferred, servers, isFree, addr, result, taken, heldAtZero>>

logoutVars == <<confirmLogoutOpen, logoutBusy, logoutCalls, events>>

topUpVars == <<topUpAmount, topUps, desktopApi>>

waitVars == <<attemptAt, connectedAt>>

applyVars == <<applyVersion, applyDoc, applyCalls>>

navVars == <<appState, pathname, didAutoNavRef, onboarded, effectDue, navLog>>

hookVars == <<hookPc, cancelled, unsub, listeners, delivered, setCalls>>

wizVars == <<step, error, fields, saved>>

extVars == <<applyVars, navVars, hookVars, wizVars>>

auxVars == <<tailVars, ppVars, logoutVars, topUpVars, waitVars, extVars>>

vars == <<supVars, migVars, uiVars, auxVars>>

\* no tail buffer has been built
TailIdle == maxChars = 0 /\ buf = <<>> /\ pushed = <<>>

\* none of those parts is in use
\* pickPort is not being called
PickPortIdle ==
  /\ ppPc = "idle" /\ preferred = 0 /\ servers = <<>> /\ isFree = "unset"
  /\ addr = 0 /\ result = 0 /\ taken = {} /\ heldAtZero = FALSE

\* the account tab is not mounted
LogoutIdle ==
  /\ confirmLogoutOpen = FALSE /\ logoutBusy = FALSE
  /\ logoutCalls = <<>> /\ events = <<>>

TopUpIdle == topUpAmount = <<>> /\ topUps = <<>> /\ desktopApi = "null"

\* no attempt of waitForPortOpen has been timed
WaitIdle == attemptAt = -1 /\ connectedAt = -1

\* no migration is being called on its own
ApplyIdle ==
  /\ applyVersion = 0
  /\ applyDoc = [gateway |-> [kind |-> "absent"], browser |-> [kind |-> "absent"]]
  /\ applyCalls = <<>>

\* the App component is not mounted
NavIdle ==
  /\ appState = "none" /\ pathname = "/" /\ didAutoNavRef = FALSE
  /\ onboarded = FALSE /\ effectDue = FALSE /\ navLog = <<>>

\* no component uses the hook
HookIdle ==
  /\ hookPc = "idle" /\ cancelled = FALSE /\ unsub = "null"
  /\ listeners = 0 /\ delivered = 0 /\ setCalls = <<>>

\* the welcome page is not mounted
WizIdle ==
  /\ step = "config" /\ error = "null" /\ saved = {}
  /\ fields = [s \in {"anthropic", "telegramToken", "telegramUser"} |-> ""]

ExtIdle ==
  /\ ApplyIdle
  /\ NavIdle
  /\ HookIdle
  /\ WizIdle

AuxIdle ==
  /\ ExtIdle
  /\ TailIdle
  /\ PickPortIdle
  /\ LogoutIdle
  /\ TopUpIdle
  /\ WaitIdle

(***************************************************************************)
(* Bounds                                                                  *)
(***************************************************************************)
\* the overall readiness timeout (30_000 ms in the code) counted in poll
\* intervals of 250 ms, scaled down
TimeoutTicks == 3
\* number of runs (the first launch plus relaunches by gateway-retry)
MaxRuns == 2
\* number of runs of the migration engine
MaxMigRuns == 2
\* longest gateway.controlUi.allowedOrigins array of an initial document
MaxOrigins == 1

(***************************************************************************)
(* Program constants                                                       *)
(***************************************************************************)
DEFAULT_PORT == 18789
\* socket.setTimeout(500, ...): the per-attempt timeout, in poll intervals
ProbeTimeoutTicks == 2
\* setTimeout(r, 250): one poll interval
SleepTicks == 1

\* ports the OS may hand out for a bind of port 0
EphemeralPorts == {49152, 49153}
Ports == {DEFAULT_PORT} \cup EphemeralPorts

NoState == [kind |-> "none"]
\* stderrTail: what the tail buffer of the child's stderr holds; wrote: all
\* the text the 'data' events of its stderr delivered
NoChild == [state |-> "none", killed |-> FALSE, listening |-> FALSE,
            stubborn |-> FALSE, stderrTail |-> <<>>, wrote |-> <<>>,
            sigs |-> <<>>, envToken |-> "", envPort |-> 0]

\* randomBytes(24).toString("base64url"): a fresh token per call
MintedTokens == <<"mint1", "mint2", "mint3", "mint4">>
randomToken(r) == MintedTokens[r]

(***************************************************************************)
(* The config file as the supervisor sees it: its shape and the value of   *)
(* gateway.auth.token ("<none>": missing or not a string).                 *)
(***************************************************************************)
AbsentFile == [shape |-> "absent", token |-> "<none>"]
InitialConfigFiles ==
  {AbsentFile, [shape |-> "unparsable", token |-> "<none>"],
   [shape |-> "nonobject", token |-> "<none>"]}
  \cup {[shape |-> "object", token |-> t] : t \in {"<none>", "  ", "tokA", " tokA "}}

\* String.prototype.trim on the strings of the model
(***************************************************************************)
(* createTailBuffer and the text it holds: a sequence of characters.       *)
(***************************************************************************)
\* String.prototype.slice(start) for 0 <= start
slice(s, start) == SubSeq(s, start + 1, Len(s))

push_keepsHead(b, chunk, n) ==
  LET all == b \o chunk
  IN IF Len(all) > n THEN SubSeq(all, 1, n) ELSE all

\* push(chunk): the new value of buf
push(b, chunk, n) ==
  LET all == b \o chunk
  IN IF Len(all) > n THEN slice(all, Len(all) - n) ELSE all

\* createTailBuffer(24_000) at line 378, scaled
StderrBudget == 2

\* String.prototype.trim on a sequence of characters
trimChars(s) ==
  LET ix == {i \in 1..Len(s) : s[i] # " "}
  IN IF ix = {} THEN <<>>
     ELSE SubSeq(s, CHOOSE i \in ix : \A j \in ix : i <= j,
                    CHOOSE i \in ix : \A j \in ix : i >= j)

\* the line of details that stands for an empty tail
Placeholder == <<"<empty>">>

trim(s) == CASE s = " tokA " -> "tokA" [] s = "  " -> "" [] OTHER -> s

\* mutant: the token is looked up at cfg.auth.token, which is never there
readGatewayTokenFromConfig_wrongPath(f) == "<null>"

\* readGatewayTokenFromConfig: the trimmed token, or "<null>"
readGatewayTokenFromConfig(f) ==
  IF f.shape # "object" THEN "<null>"
  ELSE IF f.token # "<none>" /\ trim(f.token) # "" THEN trim(f.token)
  ELSE "<null>"

\* mutant: a file without a readable token is replaced as well
ensureGatewayConfigFile_replacesTokenless(f, t) ==
  IF f.shape = "object" /\ f.token # "<none>" /\ trim(f.token) # ""
  THEN f ELSE [shape |-> "object", token |-> t]

\* ensureGatewayConfigFile: writes the minimal config only if no file exists
ensureGatewayConfigFile(f, t) ==
  IF f.shape # "absent" THEN f ELSE [shape |-> "object", token |-> t]

(***************************************************************************)
(* Ports                                                                   *)
(***************************************************************************)
PortFree(p) ==
  /\ p \notin busy
  /\ \A o \in orphans : ~(o.listening /\ o.port = p)
  /\ ~(child.state = "running" /\ child.listening /\ port = p)

\* a TCP connect to 127.0.0.1:port succeeds
PortOpen ==
  \/ child.state = "running" /\ child.listening
  \/ \E o \in orphans : o.listening /\ o.port = port

(***************************************************************************)
(* ChildProcess.kill(signal): delivers the signal and sets .killed when    *)
(* the process handle still exists; otherwise returns false, no effect.    *)
(***************************************************************************)
kill(c, sig) ==
  IF c.state = "running"
  THEN [c EXCEPT !.killed = TRUE, !.sigs = Append(@, sig)]
  ELSE c

(***************************************************************************)
(* broadcastGatewayState(win, state)                                       *)
(***************************************************************************)
\* the messages the main process sends to the page: the event of
\* webContents.send("gateway-state", state) and the reply to an invoke of
\* "gateway-get-info"
Push(state) == [type |-> "push", state |-> state]
Reply(info) == [type |-> "reply", state |-> info.state]

\* mutant: gatewayState is assigned after the send, inside the try block
broadcastGatewayState_setsAfterSend(state) ==
  /\ gatewayState' = IF win = "open" THEN state ELSE gatewayState
  /\ broadcasts' = Append(broadcasts,
                          [kind |-> state.kind, state |-> state,
                           delivered |-> (win = "open")])
  /\ chan' = IF win = "open" THEN Append(chan, Push(state)) ELSE chan

broadcastGatewayState(state) ==
  /\ gatewayState' = state
  \* webContents.send throws on a destroyed window; the throw is swallowed
  /\ broadcasts' = Append(broadcasts,
                          [kind |-> state.kind, state |-> state,
                           delivered |-> (win = "open")])
  \* win.webContents.send("gateway-state", state)
  /\ chan' = IF win = "open" THEN Append(chan, Push(state)) ELSE chan

\* ipcMain.handle("gateway-get-info"): the reply to an invoke handled now
gatewayGetInfo == [state |-> gatewayState]

Kinds(bs) == [i \in 1..Len(bs) |-> bs[i].kind]

LogsDir == "userData/logs"

Starting(p, t) == [kind |-> "starting", port |-> p, logsDir |-> LogsDir, token |-> t]
Ready_defaultPort(p, t) ==
  [kind |-> "ready", port |-> p, logsDir |-> LogsDir,
   url |-> [host |-> "127.0.0.1", port |-> DEFAULT_PORT], token |-> t]

\* lines 369, 412: url = `http://127.0.0.1:${port}/`
Ready(p, t) ==
  [kind |-> "ready", port |-> p, logsDir |-> LogsDir,
   url |-> [host |-> "127.0.0.1", port |-> p], token |-> t]
Failed_rawTail(p, t, c) ==
  [kind |-> "failed", port |-> p, logsDir |-> LogsDir,
   details |-> [tail |-> c.stderrTail, logsDir |-> LogsDir],
   token |-> t]

\* details: stderrTail.read().trim() || "<empty>", and "See logs in: <logsDir>"
Failed(p, t, c) ==
  [kind |-> "failed", port |-> p, logsDir |-> LogsDir,
   details |-> [tail |-> IF trimChars(c.stderrTail) = <<>> THEN Placeholder
                         ELSE trimChars(c.stderrTail),
                logsDir |-> LogsDir],
   token |-> t]

(***************************************************************************)
(* The config document: the parts of the JSON tree the registered          *)
(* migrations read or write.  Every value carries its kind, so that        *)
(* "missing", "not a plain object" and "object" stay distinct.             *)
(*   gateway   : absent | nonobject | object {mode, bind, controlUi}       *)
(*   controlUi : absent | nonobject | object {allowedOrigins,              *)
(*                                     dangerouslyDisableDeviceAuth}       *)
(*   allowedOrigins : nonarray | array of items                            *)
(*   browser   : absent | nonobject | object {defaultProfile}              *)
(* "<other>" / "<none>": a missing or non-string (resp. other) value.      *)
(* "<poison>": a JSON value whose String(v) throws, e.g. {toString: 1}.    *)
(***************************************************************************)
Absent == [kind |-> "absent"]
NonObject == [kind |-> "nonobject"]
NonArray == [kind |-> "nonarray"]

OriginItems == {"null", " null ", "", "<poison>"}
SeqsUpTo(S, n) == UNION {[1..k -> S] : k \in 0..n}

AllowedOriginsValues ==
  {NonArray} \cup {[kind |-> "array", items |-> xs] : xs \in SeqsUpTo(OriginItems, MaxOrigins)}
ControlUiValues ==
  {Absent, NonObject} \cup
  {[kind |-> "object", allowedOrigins |-> ao, dangerouslyDisableDeviceAuth |-> d] :
      ao \in AllowedOriginsValues, d \in BOOLEAN}
GatewayValues ==
  {Absent, NonObject} \cup
  {[kind |-> "object", mode |-> mb[1], bind |-> mb[2], controlUi |-> cu] :
      mb \in {<<"local", "loopback">>, <<" local ", "loopback">>,
              <<"<other>", "loopback">>, <<"local", "<other>">>},
      cu \in ControlUiValues}
BrowserValues ==
  {Absent, NonObject} \cup
  {[kind |-> "object", defaultProfile |-> dp] : dp \in {"<none>", "chrome"}}
Documents == {[gateway |-> g, browser |-> b] : g \in GatewayValues, b \in BrowserValues}

NoDoc == [gateway |-> Absent, browser |-> Absent]

\* isPlainObject
isPlainObject(v) == v.kind = "object"

\* the {} that ensureObject stores, seen through the fields of the model
EmptyGateway == [kind |-> "object", mode |-> "<other>", bind |-> "<other>",
                 controlUi |-> Absent]
EmptyControlUi == [kind |-> "object", allowedOrigins |-> NonArray,
                   dangerouslyDisableDeviceAuth |-> FALSE]
EmptyBrowser == [kind |-> "object", defaultProfile |-> "<none>"]

\* ensureObject(root, key): the value now stored at root[key]
ensureObject(existing, empty) == IF isPlainObject(existing) THEN existing ELSE empty

\* typeof v === "string" ? v.trim() : ""   and   String(v).trim()
trimStr(v) == CASE v = " local " -> "local"
                [] v = " null " -> "null"
                [] v = "<other>" -> ""
                [] OTHER -> v

\* filter(Boolean) over the trimmed items
RECURSIVE trimAndFilter(_)
trimAndFilter(xs) ==
  IF xs = <<>> THEN <<>>
  ELSE LET h == trimStr(Head(xs))
       IN (IF h = "" THEN <<>> ELSE <<h>>) \o trimAndFilter(Tail(xs))

Includes(xs, x) == \E i \in 1..Len(xs) : xs[i] = x

\* what a call of apply did: the document as it now is in memory, whether
\* the call threw, and the value it returned when it did not
Returned(doc, changed) == [cfg |-> doc, threw |-> FALSE, ret |-> changed]
Threw(doc) == [cfg |-> doc, threw |-> TRUE, ret |-> FALSE]

\* version 1: "Ensure null origin and device-auth bypass for Electron renderer"
Migration1(doc) ==
  LET gw == ensureObject(doc.gateway, EmptyGateway)
      doc1 == [doc EXCEPT !.gateway = gw]
      mode == trimStr(gw.mode)
      bind == trimStr(gw.bind)
  IN IF mode # "local" \/ bind # "loopback" THEN Returned(doc1, FALSE)
     ELSE
       LET controlUi == ensureObject(gw.controlUi, EmptyControlUi)
           doc2 == [doc1 EXCEPT !.gateway.controlUi = controlUi]
           raw == controlUi.allowedOrigins
       IN IF raw.kind = "array" /\ Includes(raw.items, "<poison>")
          THEN Threw(doc2)         \* String(v) throws inside map
          ELSE
            LET allowedOrigins == IF raw.kind = "array"
                                  THEN trimAndFilter(raw.items) ELSE <<>>
                addNull == ~Includes(allowedOrigins, "null")
                setAuth == controlUi.dangerouslyDisableDeviceAuth # TRUE
                cu1 == IF addNull
                       THEN [controlUi EXCEPT !.allowedOrigins =
                               [kind |-> "array",
                                items |-> Append(allowedOrigins, "null")]]
                       ELSE controlUi
                cu2 == [cu1 EXCEPT !.dangerouslyDisableDeviceAuth = TRUE]
            IN Returned([doc2 EXCEPT !.gateway.controlUi = cu2], addNull \/ setAuth)

\* mutant: the profile is set whatever it was
Migration2_overwrites(doc) ==
  LET browser == ensureObject(doc.browser, EmptyBrowser)
      doc1 == [doc EXCEPT !.browser = browser]
  IN Returned([doc1 EXCEPT !.browser.defaultProfile = "openclaw"], TRUE)

\* version 2: "Set browser.defaultProfile to openclaw"
Migration2(doc) ==
  LET browser == ensureObject(doc.browser, EmptyBrowser)
      doc1 == [doc EXCEPT !.browser = browser]
  IN IF browser.defaultProfile # "<none>" THEN Returned(doc1, FALSE)
     ELSE Returned([doc1 EXCEPT !.browser.defaultProfile = "openclaw"], TRUE)

\* the versions of DESKTOP_CONFIG_MIGRATIONS, in array order
DESKTOP_CONFIG_MIGRATIONS == <<1, 2>>
Registered == {DESKTOP_CONFIG_MIGRATIONS[i] : i \in 1..Len(DESKTOP_CONFIG_MIGRATIONS)}

apply(version, doc) == IF version = 1 THEN Migration1(doc) ELSE Migration2(doc)

(***************************************************************************)
(* Files.  A config file is absent, unparsable, parses to something that   *)
(* is not a plain object, or holds a document; its text is either what     *)
(* somebody else wrote ("json5") or the output of JSON.stringify(_, null,  *)
(* 2) + "\n" ("json").  The state file holds configVersion when it is an   *)
(* object with a numeric configVersion.                                    *)
(***************************************************************************)
ConfigFiles ==
  {[shape |-> sh, text |-> "json5", doc |-> NoDoc] :
      sh \in {"absent", "unparsable", "nonobject"}}
  \cup {[shape |-> "object", text |-> t, doc |-> d] :
          t \in {"json5", "json"}, d \in Documents}

\* fs.writeFileSync(configPath, `${JSON.stringify(cfg, null, 2)}\n`)
stringifyConfig(doc) == [shape |-> "object", text |-> "json", doc |-> doc]

\* The marker file: absent; text that JSON.parse rejects; a JSON value that
\* is not a plain object; an object whose configVersion is not a number; or
\* an object with a numeric configVersion.  For the three unusable kinds
\* configVersion is the number their text mentions, as in a file cut short
\* after "configVersion": 2, in [{ "configVersion": 2 }] and in
\* { "configVersion": "2" }.
StateFiles ==
  {[shape |-> "absent", configVersion |-> 0]}
  \cup {[shape |-> sh, configVersion |-> 2] :
          sh \in {"corrupt", "nonobject", "noversion"}}
  \cup {[shape |-> "version", configVersion |-> v] : v \in 0..3}

readStateVersion_noChecks(f) ==
  f.configVersion

\* readStateVersion: 0 unless the file exists, parses, is a plain object and
\* has a configVersion of type number
readStateVersion(f) ==
  IF f.shape = "version" THEN f.configVersion ELSE 0

\* writeStateVersion
writeStateVersion(version) == [shape |-> "version", configVersion |-> version]

pendingAfter_fromMarker(version) ==
  SelectSeq(DESKTOP_CONFIG_MIGRATIONS, LAMBDA v : v >= version)

\* DESKTOP_CONFIG_MIGRATIONS.filter((m) => m.version > currentVersion)
pendingAfter(version) ==
  SelectSeq(DESKTOP_CONFIG_MIGRATIONS, LAMBDA v : v > version)

\* the engine is not running
MigIdle ==
  /\ mpc = "idle"
  /\ currentVersion = 0
  /\ pending = <<>>
  /\ cfg = NoDoc
  /\ configChanged = FALSE
  /\ appliedUpTo = 0
  /\ applyLog = <<>>
  /\ runLog = <<>>

(***************************************************************************)
(* Init: the state when the main process has loaded the module             *)
(* (lines 14, 292-294), in an environment with some ports taken and some   *)
(* config file left by earlier launches.                                   *)
(***************************************************************************)
ProcessStart ==
  /\ pc = "boot"
  /\ port = 0
  /\ token = ""
  /\ gatewayState = NoState
  /\ gateway = "null"
  /\ broadcasts = <<>>
  /\ win = "none"
  /\ elapsed = 0
  /\ quitPc = "idle"
  /\ quitChild = "null"
  /\ appExited = FALSE
  /\ exitVia = "none"
  /\ child = NoChild
  /\ uiPc = "unmounted"
  /\ uiState = NoState
  /\ chan = <<>>

\* nothing else listens; another program holds the preferred port; no port
\* can be bound at all
InitialBusy == {{}, {DEFAULT_PORT}, Ports}

Init ==
  /\ ProcessStart
  /\ AuxIdle
  /\ run = 1
  /\ orphans = {}
  /\ busy \in InitialBusy
  /\ configFile \in {AbsentFile, [shape |-> "object", token |-> "tokA"]}
  /\ MigIdle
  /\ cfgFile = [shape |-> "absent", text |-> "json5", doc |-> NoDoc]
  /\ stateFile = [shape |-> "absent", configVersion |-> 0]

envVars == <<orphans, busy, configFile>>
quitVars == <<quitPc, quitChild, appExited, exitVia, run>>

(***************************************************************************)
(* app.whenReady().then(async () => { ... })                               *)
(***************************************************************************)
\* lines 326-368: register the IPC handlers, call pickPort: listen(preferred)
WhenReady ==
  /\ pc = "boot" /\ ~appExited
  /\ pc' = "pickPreferred"
  /\ UNCHANGED <<port, token, gatewayState, gateway, broadcasts, win, elapsed,
                 child, envVars, quitVars>>
  /\ UNCHANGED <<migVars, uiVars, auxVars>>

\* spawnGateway: the outcomes of ensureDir + spawn
\*   "ok"         the child runs
\*   "errorEvent" spawn returns a ChildProcess without a process (ENOENT),
\*                its 'error' event follows
\*   "throws"     mkdirSync or spawn throws synchronously
SpawnOutcomes == {"ok", "errorEvent", "throws"}

spawnGateway(p, t, outcome, stub) ==
  [NoChild EXCEPT !.state = IF outcome = "ok" THEN "running" ELSE "nospawn",
                  !.stubborn = stub,
                  !.envToken = t,      \* OPENCLAW_GATEWAY_TOKEN
                  !.envPort = p]       \* OPENCLAW_GATEWAY_PORT, --port

\* mutant: a fresh token is minted whatever the config file holds
StartupAfterPort_alwaysMints(p) ==
  LET t == randomToken(run)
  IN /\ port' = p
     /\ token' = t
     /\ configFile' = ensureGatewayConfigFile(configFile, t)
     /\ \E outcome \in SpawnOutcomes, stub \in BOOLEAN :
          IF outcome = "throws"
          THEN /\ pc' = "rejected:spawn"
               /\ UNCHANGED <<gateway, child, win>>
          ELSE /\ gateway' = "child"
               /\ child' = spawnGateway(p, t, outcome, stub)
               /\ win' = "open"
               /\ pc' = "createWindow"
     /\ UNCHANGED <<gatewayState, broadcasts, elapsed, orphans, busy, quitVars>>

\* lines 369-390, run without a suspension point once pickPort has resolved
\* with p: resolve the token, ensure the config file, spawn the child, create
\* the BrowserWindow and start loading the renderer
StartupAfterPort(p) ==
  LET tokenFromConfig == readGatewayTokenFromConfig(configFile)
      t == IF tokenFromConfig = "<null>" THEN randomToken(run) ELSE tokenFromConfig
  IN /\ port' = p
     /\ token' = t
     /\ configFile' = ensureGatewayConfigFile(configFile, t)
     /\ \E outcome \in SpawnOutcomes, stub \in BOOLEAN :
          IF outcome = "throws"
          THEN /\ pc' = "rejected:spawn"
               /\ UNCHANGED <<gateway, child, win>>
          ELSE /\ gateway' = "child"
               /\ child' = spawnGateway(p, t, outcome, stub)
               /\ win' = "open"
               /\ pc' = "createWindow"
     /\ UNCHANGED <<gatewayState, broadcasts, elapsed, orphans, busy, quitVars>>

\* pickPort: the preferred port could be bound; the probe server is closed
PickPreferredFree ==
  /\ pc = "pickPreferred" /\ ~appExited
  /\ PortFree(DEFAULT_PORT)
  /\ StartupAfterPort(DEFAULT_PORT)
  /\ UNCHANGED <<migVars, uiVars, auxVars>>

\* pickPort: listen(preferred) emitted 'error'; listen(0) is issued
PickPreferredBusy ==
  /\ pc = "pickPreferred" /\ ~appExited
  /\ ~PortFree(DEFAULT_PORT)
  /\ pc' = "pickRandom"
  /\ UNCHANGED <<port, token, gatewayState, gateway, broadcasts, win, elapsed,
                 child, envVars, quitVars>>
  /\ UNCHANGED <<migVars, uiVars, auxVars>>

\* pickPort: the OS assigned p to the bind of port 0
PickRandomOk ==
  /\ pc = "pickRandom" /\ ~appExited
  /\ \E p \in EphemeralPorts : PortFree(p) /\ StartupAfterPort(p)
  /\ UNCHANGED <<migVars, uiVars, auxVars>>

\* pickPort: the bind of port 0 failed too: the promise rejects, and the
\* await at line 368 throws out of the handler
PickRandomFails ==
  /\ pc = "pickRandom" /\ ~appExited
  /\ \A p \in EphemeralPorts : ~PortFree(p)
  /\ pc' = "rejected:pickPort"
  /\ UNCHANGED <<port, token, gatewayState, gateway, broadcasts, win, elapsed,
                 child, envVars, quitVars>>
  /\ UNCHANGED <<migVars, uiVars, auxVars>>

\* lines 390-394: loadFile resolved; broadcast starting; enter waitForPortOpen
\* (start = Date.now(), first connection attempt)
CreateWindowOk ==
  /\ pc = "createWindow" /\ ~appExited
  /\ broadcastGatewayState(Starting(port, token))
  /\ elapsed' = 0
  /\ pc' = "probing"
  /\ UNCHANGED <<port, token, gateway, win, child, envVars, quitVars>>
  /\ UNCHANGED <<migVars, uiPc, uiState, auxVars>>

\* line 390: win.loadFile rejected
CreateWindowFails ==
  /\ pc = "createWindow" /\ ~appExited
  /\ pc' = "rejected:loadFile"
  /\ UNCHANGED <<port, token, gatewayState, gateway, broadcasts, win, elapsed,
                 child, envVars, quitVars>>
  /\ UNCHANGED <<migVars, uiVars, auxVars>>

(***************************************************************************)
(* waitForPortOpen("127.0.0.1", port, 30_000) and lines 394-412            *)
(***************************************************************************)
\* a connection attempt ends by 'connect', 'error' or the 500 ms timeout
ProbeDurations == 0..ProbeTimeoutTicks

\* 'connect': waitForPortOpen returns true; line 412 broadcasts ready
ProbeConnected ==
  /\ pc = "probing" /\ ~appExited
  /\ PortOpen
  /\ elapsed' = 0                 \* the locals of waitForPortOpen are gone
  /\ broadcastGatewayState(Ready(port, token))
  /\ pc' = "done"
  /\ UNCHANGED <<port, token, gateway, win, child, envVars, quitVars>>
  /\ UNCHANGED <<migVars, uiPc, uiState, auxVars>>

\* 'error' or timeout: done(false); the 250 ms sleep starts
ProbeFailed ==
  /\ pc = "probing" /\ ~appExited
  /\ ~PortOpen
  /\ \E d \in ProbeDurations : elapsed' = elapsed + d
  /\ pc' = "sleeping"
  /\ UNCHANGED <<port, token, gatewayState, gateway, broadcasts, win, child,
                 envVars, quitVars>>
  /\ UNCHANGED <<migVars, uiVars, auxVars>>

\* the sleep is over; the loop condition Date.now() - start < timeoutMs is
\* evaluated: either the next attempt starts, or waitForPortOpen returns
\* false and lines 395-407 broadcast failed and return
\* mutant: start is taken anew on every iteration, so the loop never ends
SleepDone_restartsClock ==
  /\ pc = "sleeping" /\ ~appExited
  /\ elapsed' = 0
  /\ pc' = "probing"
  /\ UNCHANGED <<port, token, gatewayState, gateway, broadcasts, win, child,
                 envVars, quitVars>>
  /\ UNCHANGED <<migVars, uiVars, auxVars>>

\* mutant: the return after the failed broadcast (line 407) is missing
SleepDone_noReturn ==
  /\ pc = "sleeping" /\ ~appExited
  /\ IF elapsed + SleepTicks < TimeoutTicks
     THEN /\ elapsed' = elapsed + SleepTicks
          /\ pc' = "probing"
          /\ UNCHANGED <<gatewayState, broadcasts, chan>>
     ELSE /\ elapsed' = 0
          /\ gatewayState' = Ready(port, token)
          /\ broadcasts' = broadcasts \o
                << [kind |-> "failed", state |-> Failed(port, token, child),
                    delivered |-> (win = "open")],
                   [kind |-> "ready", state |-> Ready(port, token),
                    delivered |-> (win = "open")] >>
          /\ chan' = IF win = "open"
                     THEN chan \o << Push(Failed(port, token, child)),
                                     Push(Ready(port, token)) >>
                     ELSE chan
          /\ pc' = "done"
  /\ UNCHANGED <<port, token, gateway, win, child, envVars, quitVars>>
  /\ UNCHANGED <<migVars, uiPc, uiState, auxVars>>

SleepDone ==
  /\ pc = "sleeping" /\ ~appExited
  /\ IF elapsed + SleepTicks < TimeoutTicks
     THEN /\ elapsed' = elapsed + SleepTicks
          /\ pc' = "probing"
          /\ UNCHANGED <<gatewayState, broadcasts, chan>>
     ELSE /\ elapsed' = 0          \* the locals of waitForPortOpen are gone
          /\ broadcastGatewayState(Failed(port, token, child))
          /\ pc' = "done"
  /\ UNCHANGED <<port, token, gateway, win, child, envVars, quitVars>>
  /\ UNCHANGED <<migVars, uiPc, uiState, auxVars>>

(***************************************************************************)
(* app.on("before-quit", async () => { ... })                              *)
(***************************************************************************)
\* lines 313-319, up to the await of the 1500 ms timer
BeforeQuit_keepsHandle ==
  /\ ~appExited
  /\ quitPc \in {"idle", "done"}
  /\ quitChild' = gateway
  /\ gateway' = gateway
  /\ IF gateway = "null"
     THEN /\ quitPc' = "done"
          /\ UNCHANGED child
     ELSE /\ child' = kill(child, "SIGTERM")
          /\ quitPc' = "grace"
  /\ UNCHANGED <<pc, port, token, gatewayState, broadcasts, win, elapsed,
                 appExited, exitVia, run, envVars>>
  /\ UNCHANGED <<migVars, uiVars, auxVars>>

\* a before-quit emitted while an earlier listener still waits out its grace
\* period finds gateway null and returns
BeforeQuit ==
  /\ ~appExited
  /\ quitPc \in {"idle", "done"} \/ (quitPc = "grace" /\ gateway = "null")
  /\ quitChild' = IF quitPc = "grace" THEN quitChild ELSE gateway
  /\ gateway' = "null"
  /\ IF gateway = "null"
     THEN /\ quitPc' = IF quitPc = "grace" THEN "grace" ELSE "done"
          /\ UNCHANGED child
     ELSE /\ child' = kill(child, "SIGTERM")
          /\ quitPc' = "grace"
  /\ UNCHANGED <<pc, port, token, gatewayState, broadcasts, win, elapsed,
                 appExited, exitVia, run, envVars>>
  /\ UNCHANGED <<migVars, uiVars, auxVars>>

\* lines 320-322, after the grace period
GraceElapsed ==
  /\ ~appExited
  /\ quitPc = "grace"
  /\ child' = IF ~child.killed THEN kill(child, "SIGKILL") ELSE child
  /\ quitPc' = "done"
  /\ UNCHANGED <<pc, port, token, gatewayState, gateway, broadcasts, win,
                 elapsed, quitChild, appExited, exitVia, run, envVars>>
  /\ UNCHANGED <<migVars, uiVars, auxVars>>

\* Electron does not wait for the promise of an async before-quit listener:
\* once before-quit has been emitted the process may exit at any time
AppExit ==
  /\ ~appExited
  /\ quitPc # "idle"
  /\ appExited' = TRUE
  /\ exitVia' = "quit"
  /\ UNCHANGED <<pc, port, token, gatewayState, gateway, broadcasts, win,
                 elapsed, quitPc, quitChild, run, child, envVars>>
  /\ UNCHANGED <<migVars, uiVars, auxVars>>

\* the user closes the window
CloseWindow ==
  /\ ~appExited
  /\ win = "open"
  /\ win' = "destroyed"
  /\ UNCHANGED <<pc, port, token, gatewayState, gateway, broadcasts, elapsed,
                 child, envVars, quitVars>>
  /\ UNCHANGED <<migVars, uiVars, auxVars>>

(***************************************************************************)
(* ipcMain.handle("gateway-retry"): app.relaunch(); app.exit(0)            *)
(* app.exit emits neither before-quit nor will-quit.                       *)
(***************************************************************************)
RetryExit ==
  /\ ~appExited
  /\ pc \notin {"boot"}           \* the handler is registered by whenReady
  /\ win = "open"                 \* it is invoked by the renderer
  /\ run < MaxRuns
  /\ appExited' = TRUE
  /\ exitVia' = "retry"
  /\ UNCHANGED <<pc, port, token, gatewayState, gateway, broadcasts, win,
                 elapsed, quitPc, quitChild, run, child, envVars>>
  /\ UNCHANGED <<migVars, uiVars, auxVars>>

\* the relaunched instance starts; a child left running is nobody's child
Relaunch ==
  /\ appExited /\ exitVia = "retry"
  /\ orphans' = orphans \cup
        IF child.state = "running"
        THEN {[port |-> port, listening |-> child.listening]}
        ELSE {}
  /\ run' = run + 1
  /\ pc' = "boot"
  /\ port' = 0
  /\ token' = ""
  /\ gatewayState' = NoState
  /\ gateway' = "null"
  /\ broadcasts' = <<>>
  /\ win' = "none"
  /\ elapsed' = 0
  /\ quitPc' = "idle"
  /\ quitChild' = "null"
  /\ appExited' = FALSE
  /\ exitVia' = "none"
  /\ child' = NoChild
  /\ uiPc' = "unmounted"
  /\ uiState' = NoState
  /\ chan' = <<>>
  /\ UNCHANGED <<busy, configFile>>
  /\ UNCHANGED <<migVars, auxVars>>

(***************************************************************************)
(* The child process (the gateway program) and other processes             *)
(***************************************************************************)
ChildListens ==
  /\ child.state = "running" /\ ~child.listening
  /\ PortFree(child.envPort)
  /\ child' = [child EXCEPT !.listening = TRUE]
  /\ UNCHANGED <<pc, port, token, gatewayState, gateway, broadcasts, win,
                 elapsed, envVars, quitVars>>
  /\ UNCHANGED <<migVars, uiVars, auxVars>>

ChildWritesStderr ==
  /\ child.state = "running" /\ child.wrote = <<>>
  /\ ~appExited
  /\ child' = [child EXCEPT !.stderrTail = push(@, <<"a">>, StderrBudget),
                            !.wrote = @ \o <<"a">>]
  /\ UNCHANGED <<pc, port, token, gatewayState, gateway, broadcasts, win,
                 elapsed, envVars, quitVars>>
  /\ UNCHANGED <<migVars, uiVars, auxVars>>

\* the child exits: on its own or on SIGTERM unless it is stubborn (ignores
\* SIGTERM and never exits by itself); always on SIGKILL
ChildExits ==
  /\ child.state = "running"
  /\ ~child.stubborn \/ "SIGKILL" \in {child.sigs[i] : i \in 1..Len(child.sigs)}
  /\ child' = [child EXCEPT !.state = "exited", !.listening = FALSE]
  /\ UNCHANGED <<pc, port, token, gatewayState, gateway, broadcasts, win,
                 elapsed, envVars, quitVars>>
  /\ UNCHANGED <<migVars, uiVars, auxVars>>

OrphanExits ==
  /\ \E o \in orphans : orphans' = orphans \ {o}
  /\ UNCHANGED <<pc, port, token, gatewayState, gateway, broadcasts, win,
                 elapsed, child, busy, configFile, quitVars>>
  /\ UNCHANGED <<migVars, uiVars, auxVars>>

Next ==
  \/ WhenReady
  \/ PickPreferredFree
  \/ PickPreferredBusy
  \/ PickRandomOk
  \/ PickRandomFails
  \/ CreateWindowOk
  \/ CreateWindowFails
  \/ ProbeConnected
  \/ ProbeFailed
  \/ SleepDone
  \/ BeforeQuit
  \/ GraceElapsed
  \/ AppExit
  \/ CloseWindow
  \/ RetryExit
  \/ Relaunch
  \/ ChildListens
  \/ ChildWritesStderr
  \/ ChildExits
  \/ OrphanExits

Spec == Init /\ [][Next]_vars

\* the event loop of a live main process keeps running timers and socket
\* callbacks, so the step of waitForPortOpen that is due is taken
WaitStep == ProbeConnected \/ ProbeFailed \/ SleepDone
\* a first launch: no config file yet; later launches of the same behaviour
\* find the file the first one wrote
InitLive ==
  /\ Init
  /\ configFile = AbsentFile

LiveSpec == InitLive /\ [][Next]_vars /\ WF_vars(WaitStep)

\* the main process started over every kind of config file an earlier launch,
\* the user or the gateway may have left at configPath
InitTok ==
  /\ ProcessStart
  /\ AuxIdle
  /\ run = 1
  /\ orphans = {}
  /\ busy \in {{}, Ports}
  /\ configFile \in InitialConfigFiles
  /\ MigIdle
  /\ cfgFile = [shape |-> "absent", text |-> "json5", doc |-> NoDoc]
  /\ stateFile = [shape |-> "absent", configVersion |-> 0]

\* every step of the main process and of its children that can come before
\* or after the token is resolved; the stderr output of the child and the
\* closing of the window touch neither the token nor the config file
NextTok ==
  \/ WhenReady
  \/ PickPreferredFree
  \/ PickPreferredBusy
  \/ PickRandomOk
  \/ PickRandomFails
  \/ CreateWindowOk
  \/ CreateWindowFails
  \/ ProbeConnected
  \/ ProbeFailed
  \/ SleepDone
  \/ BeforeQuit
  \/ GraceElapsed
  \/ AppExit
  \/ RetryExit
  \/ Relaunch
  \/ ChildListens
  \/ ChildExits
  \/ OrphanExits

SpecTok == InitTok /\ [][NextTok]_vars

(***************************************************************************)
(* The page: useGatewayState, through the preload bridge                   *)
(*   getGatewayInfo  = ipcRenderer.invoke("gateway-get-info")              *)
(*   onGatewayState  = ipcRenderer.on("gateway-state", handler)            *)
(* The reply to the invoke and the events of webContents.send reach the    *)
(* page over the frame's IPC channel in the order in which the main        *)
(* process sent them; the continuation of the await (setState and the      *)
(* subscription, lines 82-88 of the hook) runs as a microtask of the task  *)
(* that delivers the reply, before the next message is dispatched.         *)
(***************************************************************************)
PageAlive == win = "open" /\ ~appExited

\* the effect runs: api.getGatewayInfo() is called, the invoke is on its way
UiMount ==
  /\ PageAlive
  /\ uiPc = "unmounted"
  /\ uiPc' = "invoked"
  /\ UNCHANGED <<uiState, chan>>
  /\ UNCHANGED <<supVars, migVars, auxVars>>

\* the main process handles the invoke and replies { state: gatewayState }
HandleGetInfo ==
  /\ PageAlive
  /\ uiPc = "invoked"
  /\ chan' = Append(chan, Reply(gatewayGetInfo))
  /\ uiPc' = "awaiting"
  /\ UNCHANGED uiState
  /\ UNCHANGED <<supVars, migVars, auxVars>>

\* mutant: the hook subscribes only when the pull returned no state
UiTakesReply_subscribesOnlyWhenEmpty ==
  /\ PageAlive
  /\ chan # <<>> /\ Head(chan).type = "reply"
  /\ uiState' = Head(chan).state
  /\ uiPc' = IF Head(chan).state = NoState THEN "subscribed" ELSE "pulled"
  /\ chan' = Tail(chan)
  /\ UNCHANGED <<supVars, migVars, auxVars>>

\* the reply arrives: setState(info.state ?? null), then
\* unsub = api.onGatewayState((next) => setState(next))
UiTakesReply ==
  /\ PageAlive
  /\ chan # <<>> /\ Head(chan).type = "reply"
  /\ uiState' = Head(chan).state
  /\ uiPc' = "subscribed"
  /\ chan' = Tail(chan)
  /\ UNCHANGED <<supVars, migVars, auxVars>>

\* a "gateway-state" event arrives: the listener, if one is registered,
\* calls setState(next); without a listener the event is dropped
UiTakesPush ==
  /\ PageAlive
  /\ chan # <<>> /\ Head(chan).type = "push"
  /\ uiState' = IF uiPc = "subscribed" THEN Head(chan).state ELSE uiState
  /\ chan' = Tail(chan)
  /\ UNCHANGED uiPc
  /\ UNCHANGED <<supVars, migVars, auxVars>>

\* one launch with a free preferred port and no config file
InitUi ==
  /\ ProcessStart
  /\ AuxIdle
  /\ run = 1
  /\ orphans = {}
  /\ busy = {}
  /\ configFile = AbsentFile
  /\ MigIdle
  /\ cfgFile = [shape |-> "absent", text |-> "json5", doc |-> NoDoc]
  /\ stateFile = [shape |-> "absent", configVersion |-> 0]

NextUi ==
  \/ WhenReady
  \/ PickPreferredFree
  \/ CreateWindowOk
  \/ CreateWindowFails
  \/ ProbeConnected
  \/ ProbeFailed
  \/ SleepDone
  \/ CloseWindow
  \/ ChildListens
  \/ ChildExits
  \/ UiMount
  \/ HandleGetInfo
  \/ UiTakesReply
  \/ UiTakesPush

SpecUi == InitUi /\ [][NextUi]_vars

(***************************************************************************)
(* runConfigMigrations({ configPath, stateDir })                           *)
(***************************************************************************)
ThisRun == Len(runLog)

RunRecord(ended) ==
  [startCfg |-> cfgFile, startState |-> stateFile, cfgWrites |-> 0,
   stateWrites |-> 0, ended |-> ended]

\* the locals of a call that has returned are gone
LocalsDiscarded ==
  /\ currentVersion' = 0
  /\ pending' = <<>>
  /\ cfg' = NoDoc
  /\ configChanged' = FALSE
  /\ appliedUpTo' = 0

\* mutant: the filter on the version is missing
StartRun_noFilter ==
  /\ mpc = "idle"
  /\ Len(runLog) < MaxMigRuns
  /\ IF cfgFile.shape # "object"
     THEN /\ runLog' = Append(runLog, RunRecord("returned"))
          /\ UNCHANGED <<mpc, currentVersion, pending, cfg, configChanged, appliedUpTo>>
     ELSE /\ runLog' = Append(runLog, RunRecord("running"))
          /\ mpc' = "apply"
          /\ currentVersion' = readStateVersion(stateFile)
          /\ pending' = DESKTOP_CONFIG_MIGRATIONS
          /\ cfg' = cfgFile.doc
          /\ configChanged' = FALSE
          /\ appliedUpTo' = readStateVersion(stateFile)
  /\ UNCHANGED <<cfgFile, stateFile, applyLog, supVars, uiVars, auxVars>>

\* mutant: a document that cannot be read as an object is taken as {}
StartRun_noParseCheck ==
  /\ mpc = "idle"
  /\ Len(runLog) < MaxMigRuns
  /\ LET cur == readStateVersion(stateFile)
         pend == pendingAfter(cur)
     IN IF cfgFile.shape = "absent" \/ pend = <<>>
        THEN /\ runLog' = Append(runLog, RunRecord("returned"))
             /\ UNCHANGED <<mpc, currentVersion, pending, cfg, configChanged,
                            appliedUpTo>>
        ELSE /\ runLog' = Append(runLog, RunRecord("running"))
             /\ mpc' = "apply"
             /\ currentVersion' = cur
             /\ pending' = pend
             /\ cfg' = cfgFile.doc
             /\ configChanged' = FALSE
             /\ appliedUpTo' = cur
  /\ UNCHANGED <<cfgFile, stateFile, applyLog, supVars, uiVars, auxVars>>

\* lines 100-118: the early returns, or the start of the for-loop
StartRun ==
  /\ mpc = "idle"
  /\ Len(runLog) < MaxMigRuns
  /\ LET cur == readStateVersion(stateFile)
         pend == pendingAfter(cur)
     IN IF \/ cfgFile.shape = "absent"        \* line 101
           \/ pend = <<>>                     \* line 105
           \/ cfgFile.shape # "object"        \* lines 111, 114
        THEN /\ runLog' = Append(runLog, RunRecord("returned"))
             /\ UNCHANGED <<mpc, currentVersion, pending, cfg, configChanged,
                            appliedUpTo>>
        ELSE /\ runLog' = Append(runLog, RunRecord("running"))
             /\ mpc' = "apply"
             /\ currentVersion' = cur
             /\ pending' = pend
             /\ cfg' = cfgFile.doc
             /\ configChanged' = FALSE
             /\ appliedUpTo' = cur
  /\ UNCHANGED <<cfgFile, stateFile, applyLog, supVars, uiVars, auxVars>>

LogEntry(v, r) ==
  [run |-> ThisRun, version |-> v,
   outcome |-> IF r.threw THEN "threw" ELSE IF r.ret THEN "true" ELSE "false"]

\* mutant: appliedUpTo is assigned before apply is called
ApplyNext_advancesFirst ==
  /\ mpc = "apply"
  /\ LET v == Head(pending)
         r == apply(v, cfg)
     IN /\ cfg' = r.cfg
        /\ applyLog' = Append(applyLog, LogEntry(v, r))
        /\ appliedUpTo' = v
        /\ IF r.threw
           THEN /\ mpc' = "writeConfig"
                /\ UNCHANGED <<configChanged, pending>>
           ELSE /\ configChanged' = (configChanged \/ r.ret)
                /\ pending' = Tail(pending)
                /\ mpc' = IF Tail(pending) = <<>> THEN "writeConfig" ELSE "apply"
  /\ UNCHANGED <<cfgFile, stateFile, currentVersion, runLog, supVars, uiVars, auxVars>>

\* mutant: the catch block does not break out of the loop
ApplyNext_continues ==
  /\ mpc = "apply"
  /\ LET v == Head(pending)
         r == apply(v, cfg)
     IN /\ cfg' = r.cfg
        /\ applyLog' = Append(applyLog, LogEntry(v, r))
        /\ pending' = Tail(pending)
        /\ mpc' = IF Tail(pending) = <<>> THEN "writeConfig" ELSE "apply"
        /\ IF r.threw
           THEN UNCHANGED <<configChanged, appliedUpTo>>
           ELSE /\ configChanged' = (configChanged \/ r.ret)
                /\ appliedUpTo' = v
  /\ UNCHANGED <<cfgFile, stateFile, currentVersion, runLog, supVars, uiVars, auxVars>>

\* mutant: the call of apply is not inside a try block
ApplyNext_rethrows ==
  /\ mpc = "apply"
  /\ LET v == Head(pending)
         r == apply(v, cfg)
     IN /\ applyLog' = Append(applyLog, LogEntry(v, r))
        /\ IF r.threw
           THEN /\ mpc' = "idle"
                /\ runLog' = [runLog EXCEPT ![ThisRun].ended = "threw"]
                /\ LocalsDiscarded
           ELSE /\ cfg' = r.cfg
                /\ configChanged' = (configChanged \/ r.ret)
                /\ appliedUpTo' = v
                /\ pending' = Tail(pending)
                /\ mpc' = IF Tail(pending) = <<>> THEN "writeConfig" ELSE "apply"
                /\ UNCHANGED <<currentVersion, runLog>>
  /\ UNCHANGED <<cfgFile, stateFile, supVars, uiVars, auxVars>>

\* lines 120-130: one iteration of the for-loop
ApplyNext ==
  /\ mpc = "apply"
  /\ LET v == Head(pending)
         r == apply(v, cfg)
     IN /\ cfg' = r.cfg          \* apply mutates cfg in place, also when it throws
        /\ applyLog' = Append(applyLog, LogEntry(v, r))
        /\ IF r.threw
           THEN /\ mpc' = "writeConfig"                 \* break
                /\ UNCHANGED <<configChanged, appliedUpTo, pending>>
           ELSE /\ configChanged' = (configChanged \/ r.ret)
                /\ appliedUpTo' = v
                /\ pending' = Tail(pending)
                /\ mpc' = IF Tail(pending) = <<>> THEN "writeConfig" ELSE "apply"
  /\ UNCHANGED <<cfgFile, stateFile, currentVersion, runLog, supVars, uiVars, auxVars>>

\* mutant: the document is written whether or not a migration changed it
WriteConfig_always ==
  /\ mpc = "writeConfig"
  /\ cfgFile' = stringifyConfig(cfg)
  /\ runLog' = [runLog EXCEPT ![ThisRun].cfgWrites = @ + 1]
  /\ mpc' = "writeState"
  /\ UNCHANGED <<stateFile, currentVersion, pending, cfg, configChanged,
                 appliedUpTo, applyLog, supVars, uiVars, auxVars>>

\* lines 132-134
WriteConfig ==
  /\ mpc = "writeConfig"
  /\ IF configChanged
     THEN /\ cfgFile' = stringifyConfig(cfg)
          /\ runLog' = [runLog EXCEPT ![ThisRun].cfgWrites = @ + 1]
     ELSE UNCHANGED <<cfgFile, runLog>>
  /\ mpc' = "writeState"
  /\ UNCHANGED <<stateFile, currentVersion, pending, cfg, configChanged,
                 appliedUpTo, applyLog, supVars, uiVars, auxVars>>

\* mutant: the marker is set to the newest registered version
WriteState_writesNewest ==
  /\ mpc = "writeState"
  /\ stateFile' = writeStateVersion(
                    DESKTOP_CONFIG_MIGRATIONS[Len(DESKTOP_CONFIG_MIGRATIONS)])
  /\ runLog' = [runLog EXCEPT ![ThisRun].stateWrites = @ + 1,
                              ![ThisRun].ended = "returned"]
  /\ mpc' = "idle"
  /\ LocalsDiscarded
  /\ UNCHANGED <<cfgFile, applyLog, supVars, uiVars, auxVars>>

\* mutant: the marker is written only together with the document
WriteState_onlyIfChanged ==
  /\ mpc = "writeState"
  /\ IF configChanged /\ appliedUpTo > currentVersion
     THEN /\ stateFile' = writeStateVersion(appliedUpTo)
          /\ runLog' = [runLog EXCEPT ![ThisRun].stateWrites = @ + 1,
                                      ![ThisRun].ended = "returned"]
     ELSE /\ UNCHANGED stateFile
          /\ runLog' = [runLog EXCEPT ![ThisRun].ended = "returned"]
  /\ mpc' = "idle"
  /\ LocalsDiscarded
  /\ UNCHANGED <<cfgFile, applyLog, supVars, uiVars, auxVars>>

\* lines 135-137, and the return
WriteState ==
  /\ mpc = "writeState"
  /\ IF appliedUpTo > currentVersion
     THEN /\ stateFile' = writeStateVersion(appliedUpTo)
          /\ runLog' = [runLog EXCEPT ![ThisRun].stateWrites = @ + 1,
                                      ![ThisRun].ended = "returned"]
     ELSE /\ UNCHANGED stateFile
          /\ runLog' = [runLog EXCEPT ![ThisRun].ended = "returned"]
  /\ mpc' = "idle"
  /\ LocalsDiscarded
  /\ UNCHANGED <<cfgFile, applyLog, supVars, uiVars, auxVars>>

\* the process stops in the middle of a run
Crash ==
  /\ mpc # "idle"
  /\ mpc' = "idle"
  /\ runLog' = [runLog EXCEPT ![ThisRun].ended = "crashed"]
  /\ LocalsDiscarded
  /\ UNCHANGED <<cfgFile, stateFile, applyLog, supVars, uiVars, auxVars>>

InitMig ==
  /\ ProcessStart
  /\ AuxIdle
  /\ run = 1
  /\ orphans = {}
  /\ busy = {}
  /\ configFile = AbsentFile
  /\ MigIdle
  /\ cfgFile \in ConfigFiles
  /\ stateFile \in StateFiles

NextMig ==
  \/ StartRun
  \/ ApplyNext
  \/ WriteConfig
  \/ WriteState
  \/ Crash

SpecMig == InitMig /\ [][NextMig]_vars

(***************************************************************************)
(* The file writes of runConfigMigrations at the grain of the file system: *)
(* fs.writeFileSync(path, data) opens the path with flag "w", which        *)
(* truncates the file, then writes the data and closes.  Between the two   *)
(* the path holds an empty (or partly written) file, which is what a       *)
(* reader or the next run after a crash finds.  SpecMig takes each         *)
(* writeFileSync as one step; SpecMigIO takes it as two.                   *)
(***************************************************************************)
\* the file at configPath between open("w") and the end of the write
TruncatedConfig == [shape |-> "truncated", text |-> "json", doc |-> NoDoc]
\* the state file between open("w") and the end of the write: JSON.parse
\* of it throws and readStateVersion returns 0
TruncatedState == [shape |-> "corrupt", configVersion |-> 0]

\* lines 132-133: the test of configChanged and the open of writeFileSync
WriteConfigOpen ==
  /\ mpc = "writeConfig"
  /\ IF configChanged
     THEN /\ cfgFile' = TruncatedConfig
          /\ mpc' = "writingConfig"
     ELSE /\ UNCHANGED cfgFile
          /\ mpc' = "writeState"
  /\ UNCHANGED <<stateFile, currentVersion, pending, cfg, configChanged,
                 appliedUpTo, applyLog, runLog, supVars, uiVars, auxVars>>

\* line 133: the data is written and the file closed
WriteConfigData ==
  /\ mpc = "writingConfig"
  /\ cfgFile' = stringifyConfig(cfg)
  /\ runLog' = [runLog EXCEPT ![ThisRun].cfgWrites = @ + 1]
  /\ mpc' = "writeState"
  /\ UNCHANGED <<stateFile, currentVersion, pending, cfg, configChanged,
                 appliedUpTo, applyLog, supVars, uiVars, auxVars>>

\* lines 135-136 and 91-92: the test and the open of writeFileSync, or the
\* return when the marker did not advance
WriteStateOpen ==
  /\ mpc = "writeState"
  /\ IF appliedUpTo > currentVersion
     THEN /\ stateFile' = TruncatedState
          /\ mpc' = "writingState"
          /\ UNCHANGED <<runLog, currentVersion, pending, cfg, configChanged,
                         appliedUpTo>>
     ELSE /\ UNCHANGED stateFile
          /\ runLog' = [runLog EXCEPT ![ThisRun].ended = "returned"]
          /\ mpc' = "idle"
          /\ LocalsDiscarded
  /\ UNCHANGED <<cfgFile, applyLog, supVars, uiVars, auxVars>>

\* line 92: the data is written and the file closed; the engine returns
WriteStateData ==
  /\ mpc = "writingState"
  /\ stateFile' = writeStateVersion(appliedUpTo)
  /\ runLog' = [runLog EXCEPT ![ThisRun].stateWrites = @ + 1,
                              ![ThisRun].ended = "returned"]
  /\ mpc' = "idle"
  /\ LocalsDiscarded
  /\ UNCHANGED <<cfgFile, applyLog, supVars, uiVars, auxVars>>

\* line 133: writeFileSync throws (the path cannot be opened for writing);
\* the call is outside every try block, so the exception leaves the engine
WriteConfigFails ==
  /\ mpc = "writeConfig"
  /\ configChanged
  /\ runLog' = [runLog EXCEPT ![ThisRun].ended = "threw"]
  /\ mpc' = "idle"
  /\ LocalsDiscarded
  /\ UNCHANGED <<cfgFile, stateFile, applyLog, supVars, uiVars, auxVars>>

\* line 136: the writeFileSync of writeStateVersion throws, uncaught as well
WriteStateFails ==
  /\ mpc = "writeState"
  /\ appliedUpTo > currentVersion
  /\ runLog' = [runLog EXCEPT ![ThisRun].ended = "threw"]
  /\ mpc' = "idle"
  /\ LocalsDiscarded
  /\ UNCHANGED <<cfgFile, stateFile, applyLog, supVars, uiVars, auxVars>>

\* the files found at the first run: any config file; a marker that is
\* missing, unreadable, or was written by an earlier run of the engine
InitMigIO ==
  /\ ProcessStart
  /\ AuxIdle
  /\ run = 1
  /\ orphans = {}
  /\ busy = {}
  /\ configFile = AbsentFile
  /\ MigIdle
  /\ cfgFile \in ConfigFiles
  /\ stateFile \in {f \in StateFiles :
                      \/ f.shape \in {"absent", "corrupt"}
                      \/ f.shape = "version" /\ f.configVersion \in Registered}

NextMigIO ==
  \/ StartRun
  \/ ApplyNext
  \/ WriteConfigOpen
  \/ WriteConfigData
  \/ WriteConfigFails
  \/ WriteStateOpen
  \/ WriteStateData
  \/ WriteStateFails
  \/ Crash

SpecMigIO == InitMigIO /\ [][NextMigIO]_vars


Signals(c) == {c.sigs[i] : i \in 1..Len(c.sigs)}
Waiting == pc \in {"probing", "sleeping"}
Terminal == {"ready", "failed"}

(***************************************************************************)
(* C1: within one run the gateway state only moves none -> starting ->     *)
(* ready | failed; after ready or failed nothing more is set or broadcast; *)
(* starting is broadcast before the terminal state, and at most one        *)
(* terminal state is broadcast.                                            *)
(***************************************************************************)
C1_StateMachine ==
  /\ [](/\ Kinds(broadcasts) \in {<<>>, <<"starting">>, <<"starting", "ready">>,
                                  <<"starting", "failed">>}
        /\ gatewayState.kind =
             IF broadcasts = <<>> THEN "none" ELSE broadcasts[Len(broadcasts)].kind)
  /\ [][run' = run =>
          /\ gatewayState' # gatewayState =>
               <<gatewayState.kind, gatewayState'.kind>> \in
                  {<<"none", "starting">>, <<"starting", "ready">>,
                   <<"starting", "failed">>}
          /\ gatewayState.kind \in Terminal =>
               gatewayState' = gatewayState /\ broadcasts' = broadcasts]_vars

C1_Witness ==
  /\ gatewayState.kind = "failed"
  /\ Kinds(broadcasts) = <<"starting", "failed">>
  /\ quitPc = "done"

C3_FatalBecomesFailed ==
  pc \in {"rejected:pickPort", "rejected:spawn"} => gatewayState.kind = "failed"

(***************************************************************************)
(* C4: whenever the application has exited and the child it spawned is     *)
(* still running, the child has been sent the termination signal.          *)
(***************************************************************************)
C4_TerminatedBeforeExit ==
  (appExited /\ child.state = "running") => "SIGTERM" \in Signals(child)

(***************************************************************************)
(* C5: when the before-quit handler has run to its end and the child it    *)
(* signalled is still alive, the forced kill has been sent.                *)
(***************************************************************************)
C5_Escalates ==
  (quitPc = "done" /\ "SIGTERM" \in Signals(child) /\ child.state = "running")
     => "SIGKILL" \in Signals(child)

(***************************************************************************)
(* What the log of apply calls says about a run                            *)
(***************************************************************************)
RunEntries(k) == SelectSeq(applyLog, LAMBDA e : e.run = k)
RunThrew(k) == \E i \in 1..Len(applyLog) :
                  applyLog[i].run = k /\ applyLog[i].outcome = "threw"

\* the calls that returned normally before the first one that threw
RECURSIVE BeforeThrow(_)
BeforeThrow(es) ==
  IF es = <<>> \/ Head(es).outcome = "threw" THEN <<>>
  ELSE <<Head(es)>> \o BeforeThrow(Tail(es))

Completed(k) == BeforeThrow(RunEntries(k))
LastCompleted(k) == Completed(k)[Len(Completed(k))].version
AnyChanged(es) == \E i \in 1..Len(es) : es[i].outcome = "true"

\* the document after the given calls, each run to its end, in order
RECURSIVE AfterCompleted(_, _)
AfterCompleted(es, doc) ==
  IF es = <<>> THEN doc
  ELSE AfterCompleted(Tail(es), apply(Head(es).version, doc).cfg)

Max(a, b) == IF a >= b THEN a ELSE b
VersionsOf(es) == {es[i].version : i \in 1..Len(es)}

(***************************************************************************)
(* C6: the persisted configVersion never decreases, whatever the runs do   *)
(* (throwing migrations, crashes), and it never exceeds the previous       *)
(* marker or the last migration that returned normally in this run, with   *)
(* no pending migration below it left out.                                 *)
(***************************************************************************)
C6_MarkerMonotonic ==
  /\ [][readStateVersion(stateFile') >= readStateVersion(stateFile)]_vars
  /\ [](runLog # <<>> =>
          LET v == readStateVersion(stateFile)
              v0 == readStateVersion(runLog[ThisRun].startState)
              done == Completed(ThisRun)
          IN /\ v <= Max(v0, IF done = <<>> THEN v0 ELSE LastCompleted(ThisRun))
             /\ \A m \in Registered : v0 < m /\ m <= v => m \in VersionsOf(done))

C6_Witness ==
  /\ mpc = "idle" /\ runLog # <<>>
  /\ runLog[ThisRun].stateWrites = 1
  /\ readStateVersion(runLog[ThisRun].startState) = 1
  /\ readStateVersion(stateFile) = 2

(***************************************************************************)
(* C7: in a run in which a migration threw, the config file holds either   *)
(* what it held at the start of the run or the document produced by the    *)
(* migrations that completed before the failing one; at the end of the run *)
(* it is the latter exactly when one of them reported a change.            *)
(***************************************************************************)
C7_OnlyCompletedPersisted ==
  (runLog # <<>> /\ RunThrew(ThisRun)) =>
     LET start == runLog[ThisRun].startCfg
         done == Completed(ThisRun)
         expected == stringifyConfig(AfterCompleted(done, start.doc))
     IN /\ cfgFile = start \/ (AnyChanged(done) /\ cfgFile = expected)
        /\ runLog[ThisRun].ended = "returned" =>
             cfgFile = IF AnyChanged(done) THEN expected ELSE start

C7_Witness ==
  /\ mpc = "idle" /\ runLog # <<>>
  /\ runLog[ThisRun].ended = "returned"
  /\ RunThrew(ThisRun)
  /\ cfgFile.doc.browser = Absent

(***************************************************************************)
(* C8: after a migration threw, no further migration is invoked in that    *)
(* run, appliedUpTo is the version of the last completed migration (the    *)
(* marker read at the start if there is none), and the state file at the   *)
(* end of the run holds exactly that version (it is untouched if the first *)
(* pending migration threw).                                               *)
(***************************************************************************)
C8_StopsAtThrow ==
  /\ \A i, j \in 1..Len(applyLog) :
        (i < j /\ applyLog[i].run = applyLog[j].run) => applyLog[i].outcome # "threw"
  /\ (runLog # <<>> /\ RunThrew(ThisRun)) =>
        LET done == Completed(ThisRun)
            start == runLog[ThisRun].startState
        IN /\ mpc \in {"writeConfig", "writeState"} =>
                appliedUpTo = IF done = <<>> THEN readStateVersion(start)
                              ELSE LastCompleted(ThisRun)
           /\ mpc = "apply" => FALSE
           /\ runLog[ThisRun].ended = "returned" =>
                stateFile = IF done = <<>> THEN start
                            ELSE writeStateVersion(LastCompleted(ThisRun))

C8_Witness ==
  /\ mpc = "idle" /\ runLog # <<>>
  /\ runLog[ThisRun].ended = "returned"
  /\ RunThrew(ThisRun)
  /\ Len(pendingAfter(readStateVersion(runLog[ThisRun].startState))) = 2
  /\ stateFile.shape = "corrupt"

(***************************************************************************)
(* C9: once apply of a migration has returned normally in a run that wrote *)
(* the marker, apply of that migration is never called again.              *)
(***************************************************************************)
C9_AtMostOnce ==
  \A i, j \in 1..Len(applyLog) :
     (/\ i < j
      /\ applyLog[i].version = applyLog[j].version
      /\ applyLog[i].outcome # "threw")
     => runLog[applyLog[i].run].stateWrites = 0

C9_Witness ==
  /\ mpc = "idle" /\ ThisRun = 2
  /\ runLog[1].stateWrites = 1 /\ Len(RunEntries(1)) = 2
  /\ runLog[2].ended = "returned" /\ RunEntries(2) = <<>>

(***************************************************************************)
(* C10: of two runs in a row that both ran to their end, the second one    *)
(* does not write the config file and leaves config file and marker as     *)
(* they were.                                                              *)
(***************************************************************************)
C10_SecondRunNoop ==
  (/\ mpc = "idle" /\ ThisRun >= 2
   /\ runLog[ThisRun].ended = "returned"
   /\ runLog[ThisRun - 1].ended = "returned")
  => /\ runLog[ThisRun].cfgWrites = 0
     /\ cfgFile = runLog[ThisRun].startCfg
     /\ stateFile = runLog[ThisRun].startState

C10_Witness ==
  /\ mpc = "idle" /\ ThisRun = 2
  /\ runLog[1].ended = "returned" /\ runLog[1].cfgWrites = 1
  /\ runLog[1].stateWrites = 1
  /\ runLog[2].ended = "returned"
  /\ cfgFile.text = "json"

RunReturned == mpc = "idle" /\ runLog # <<>> /\ runLog[ThisRun].ended = "returned"
AllFalse(es) == \A i \in 1..Len(es) : es[i].outcome = "false"

(***************************************************************************)
(* C11: when a run has returned and some pending migration completed in    *)
(* it, the marker holds the version of the last completed migration and    *)
(* was written by this run; when every pending migration returned false,   *)
(* the config file is exactly the file found at the start (it was not      *)
(* written) and the marker is the highest applied version.                 *)
(***************************************************************************)
C11_MarkerAdvancesWithoutChange ==
  (RunReturned /\ Completed(ThisRun) # <<>>) =>
     LET es == RunEntries(ThisRun)
     IN /\ stateFile = writeStateVersion(LastCompleted(ThisRun))
        /\ runLog[ThisRun].stateWrites = 1
        /\ AllFalse(es) =>
              /\ cfgFile = runLog[ThisRun].startCfg
              /\ runLog[ThisRun].cfgWrites = 0
              /\ stateFile = writeStateVersion(es[Len(es)].version)

C11_Witness ==
  /\ RunReturned
  /\ Len(RunEntries(ThisRun)) = 2 /\ AllFalse(RunEntries(ThisRun))
  /\ readStateVersion(runLog[ThisRun].startState) = 0
  /\ stateFile = writeStateVersion(2)
  /\ cfgFile.text = "json5" /\ cfgFile.doc.gateway = Absent

(***************************************************************************)
(* C12: a run that finds no config file, an unparsable one, or one that    *)
(* parses to something that is not a plain object calls no migration and   *)
(* writes neither the config file nor the state file.                      *)
(***************************************************************************)
C12_NoopOnUnusableConfig ==
  (runLog # <<>> /\ runLog[ThisRun].startCfg.shape # "object") =>
     /\ RunEntries(ThisRun) = <<>>
     /\ runLog[ThisRun].cfgWrites = 0 /\ runLog[ThisRun].stateWrites = 0
     /\ cfgFile = runLog[ThisRun].startCfg
     /\ stateFile = runLog[ThisRun].startState
     /\ mpc = "idle" /\ runLog[ThisRun].ended = "returned"

C12_Witness ==
  /\ RunReturned /\ ThisRun = 2
  /\ runLog[1].startCfg.shape = "unparsable"
  /\ cfgFile.shape = "unparsable"
  /\ stateFile.shape = "corrupt"

(***************************************************************************)
(* C13: at every point of a run, the middle of the document write and the  *)
(* time after a crash included, the config path holds either the complete  *)
(* file found at the start of the run or the complete new document.        *)
(***************************************************************************)
C13_WriteAtomic ==
  runLog # <<>> =>
     LET start == runLog[ThisRun].startCfg
     IN cfgFile \in {start,
                     stringifyConfig(AfterCompleted(Completed(ThisRun), start.doc))}

(***************************************************************************)
(* C14: in every run of the application, when the child has been spawned   *)
(* the migration engine has been run by that application run.              *)
(***************************************************************************)
C14_MigrationsBeforeSpawn ==
  child.state # "none" => Len(runLog) >= run

(***************************************************************************)
(* C15: no exception leaves runConfigMigrations in a run in which a        *)
(* migration threw, or whose config file is unparsable or not an object;   *)
(* such a run returns.  A corrupt marker file is read as version 0: the    *)
(* only exceptions that leave the engine come from a file write that was   *)
(* due, never from reading the marker, parsing the document or applying a  *)
(* migration.                                                              *)
(***************************************************************************)
C15_ErrorsNeverPropagate ==
  \A k \in 1..Len(runLog) :
     LET r == runLog[k]
         over == k < ThisRun \/ mpc = "idle"
     IN /\ (RunThrew(k) \/ r.startCfg.shape \notin {"absent", "object"}) =>
              /\ r.ended # "threw"
              /\ over => r.ended \in {"returned", "crashed"}
        /\ r.ended = "threw" =>
              /\ Completed(k) # <<>>
              /\ ~RunThrew(k)
              /\ Completed(k)[Len(Completed(k))].version
                    > readStateVersion(r.startState)

C15_Witness ==
  /\ RunReturned
  /\ RunThrew(ThisRun)
  /\ runLog[ThisRun].startState.shape = "corrupt"
  /\ stateFile.shape = "corrupt"

Minted == {MintedTokens[i] : i \in 1..Len(MintedTokens)}
\* lines 371-373 are executed in this step
TokenResolved == token = "" /\ token' # ""

(***************************************************************************)
(* C16: within a run the token, once resolved, never changes; the current  *)
(* gateway state (starting, ready or failed) and the environment of the    *)
(* child carry it; and when the config file found at startup holds a       *)
(* string gateway.auth.token that is not blank, the token of the run is    *)
(* that string (trimmed) and not a newly minted one.                       *)
(***************************************************************************)
C16_TokenStable ==
  /\ [](/\ gatewayState.kind # "none" => gatewayState.token = token /\ token # ""
        /\ child.state # "none" => child.envToken = token /\ token # "")
  /\ [][/\ (token # "" /\ run' = run) => token' = token
        /\ (/\ TokenResolved
            /\ configFile.shape = "object" /\ configFile.token # "<none>"
            /\ trim(configFile.token) # "")
           => /\ token' = trim(configFile.token)
              /\ token' # randomToken(run)]_vars

C16_Witness ==
  /\ pc = "done" /\ gatewayState.kind = "ready"
  /\ configFile.token = " tokA "
  /\ token = "tokA" /\ child.envToken = "tokA" /\ gatewayState.token = "tokA"

(***************************************************************************)
(* C17: the run that finds no config file creates one whose                *)
(* gateway.auth.token is the token minted for that run, and every later    *)
(* run, however many follow, resolves its token to the one in that file.   *)
(***************************************************************************)
C17_CreatedTokenReused ==
  /\ [][configFile.shape = "absent" /\ TokenResolved =>
          /\ token' = randomToken(run)
          /\ configFile' = [shape |-> "object", token |-> token']]_vars
  /\ []((configFile.token \in Minted /\ token # "") => token = configFile.token)
  /\ [][configFile.token \in Minted => configFile' = configFile]_vars

C17_Witness ==
  /\ run = MaxRuns /\ run > 1
  /\ pc = "done" /\ gatewayState.kind = "ready"
  /\ configFile = [shape |-> "object", token |-> randomToken(1)]
  /\ token = randomToken(1) /\ child.envToken = randomToken(1)

(***************************************************************************)
(* C18: the ensure step writes the config file exactly when there is no    *)
(* file at the path; a file that exists, whatever it holds, is never       *)
(* changed by the supervisor.                                              *)
(***************************************************************************)
C18_EnsureNeverOverwrites ==
  [][/\ configFile.shape # "absent" => configFile' = configFile
     /\ configFile' # configFile => TokenResolved
     /\ (TokenResolved /\ configFile.shape = "absent") =>
           configFile'.shape = "object"]_vars

C18_Witness ==
  /\ pc = "done" /\ run = MaxRuns
  /\ configFile = [shape |-> "object", token |-> "  "]
  /\ token = randomToken(run)

(***************************************************************************)
(* C19: the reply of gateway-get-info carries no state before the first    *)
(* broadcast of the run and afterwards exactly the state of the latest     *)
(* call of broadcastGatewayState, whether or not that state could be sent  *)
(* to the window.                                                          *)
(***************************************************************************)
C19_PullReturnsLatest ==
  gatewayGetInfo.state =
     IF broadcasts = <<>> THEN NoState ELSE broadcasts[Len(broadcasts)].state

C19_Witness ==
  /\ Len(broadcasts) = 2
  /\ ~broadcasts[1].delivered /\ ~broadcasts[2].delivered
  /\ gatewayGetInfo.state = broadcasts[2].state
  /\ gatewayGetInfo.state.kind = "ready"

\* the pull reply has been taken by the hook
Pulled == uiPc \notin {"unmounted", "invoked", "awaiting"}

\* how far a displayed state is along none -> starting -> ready | failed
Rank(st) == CASE st.kind = "none" -> 0 [] st.kind = "starting" -> 1 [] OTHER -> 2

(***************************************************************************)
(* C20: a page that pulled the state and then subscribed holds, once every *)
(* message sent to it has been delivered, exactly the supervisor's current *)
(* state (the terminal one when startup has finished), whatever the order  *)
(* of the pull, the reply, the subscription and the broadcasts; and the    *)
(* state it displays never goes back from ready or failed to starting or   *)
(* none, nor from starting to none.                                        *)
(***************************************************************************)
C20_LateSubscriberCatchesUp ==
  /\ []((PageAlive /\ Pulled /\ chan = <<>>) => uiState = gatewayState)
  /\ []((PageAlive /\ Pulled /\ chan # <<>>) =>
          /\ uiPc = "subscribed"
          /\ \A i \in 1..Len(chan) : chan[i].type = "push"
          /\ chan[Len(chan)].state = gatewayState)
  /\ []((PageAlive /\ uiPc = "awaiting") =>
          \E i \in 1..Len(chan) :
             /\ chan[i].type = "reply"
             /\ LET after == SubSeq(chan, i + 1, Len(chan))
                IN gatewayState = IF after = <<>> THEN chan[i].state
                                  ELSE after[Len(after)].state)
  /\ [][Rank(uiState') >= Rank(uiState)]_vars

\* the supervisor reached ready while the pull was under way: the page has
\* just taken the reply (starting) and subscribed, the ready event follows
C20_Witness ==
  /\ PageAlive /\ pc = "done" /\ uiPc = "subscribed"
  /\ uiState.kind = "starting" /\ gatewayState.kind = "ready"
  /\ chan = <<Push(gatewayState)>>

(***************************************************************************)
(* The parts below are modelled on their own: while one of them runs, the  *)
(* supervisor, the migration engine and the page stand still.              *)
(***************************************************************************)
MainIdle ==
  /\ ProcessStart
  /\ run = 1
  /\ orphans = {}
  /\ busy = {}
  /\ configFile = AbsentFile
  /\ MigIdle
  /\ cfgFile = [shape |-> "absent", text |-> "json5", doc |-> NoDoc]
  /\ stateFile = [shape |-> "absent", configVersion |-> 0]

(***************************************************************************)
(* createTailBuffer: text is a sequence of characters.                     *)
(***************************************************************************)
MaxBudget == 2     \* the largest budget a buffer is built with
MaxChunk == 2      \* the longest chunk pushed
MaxPushed == 5     \* the most characters pushed in all

Chars == {"a", "b"}
Budgets == 0..MaxBudget
Chunks == SeqsUpTo(Chars, MaxChunk)

\* read()
read == buf

TailPush ==
  /\ \E chunk \in Chunks :
       /\ Len(pushed) + Len(chunk) <= MaxPushed
       /\ buf' = push(buf, chunk, maxChars)
       /\ pushed' = pushed \o chunk
  /\ UNCHANGED <<maxChars>>
  /\ UNCHANGED <<supVars, migVars, uiVars, extVars, ppVars, logoutVars, topUpVars,
                 waitVars>>

InitTail ==
  /\ MainIdle
  /\ ExtIdle
  /\ PickPortIdle
  /\ LogoutIdle
  /\ TopUpIdle
  /\ WaitIdle
  /\ maxChars \in Budgets
  /\ buf = <<>>
  /\ pushed = <<>>

NextTail ==
  \/ TailPush

SpecTail == InitTail /\ [][NextTail]_vars

Min(a, b) == IF a <= b THEN a ELSE b

\* the last n characters of s
Suffix(s, n) == SubSeq(s, Len(s) - n + 1, Len(s))

\* C21: after every push the buffer is no longer than its budget, and read()
\* is the suffix of everything pushed: all of it while it fits, the last
\* maxChars characters otherwise.
C21_TailIsBoundedSuffix ==
  /\ Len(read) <= maxChars
  /\ read = Suffix(pushed, Min(Len(pushed), maxChars))

\* text was pushed past the budget and the head of it was dropped
C21_Witness ==
  /\ maxChars = 2
  /\ Len(pushed) > maxChars
  /\ read = Suffix(pushed, maxChars)
  /\ read # SubSeq(pushed, 1, maxChars)

(***************************************************************************)
(* pickPort, one step per event of its probe servers.  Other processes     *)
(* bind and release ports while the call runs.  The OS assigns a port-0    *)
(* bind any port of its ephemeral range that nobody holds, and the         *)
(* preferred port may lie in that range.                                   *)
(***************************************************************************)
PreferredPorts == Ports

\* ports some socket is bound to
Bound == taken \cup {servers[i].port : i \in {j \in 1..Len(servers) :
                                               servers[j].state = "listening"}}

\* line 90: listen(preferred) succeeded, the callback calls server.close
ListenPreferredOk ==
  /\ ppPc = "listenPreferred"
  /\ preferred \notin Bound
  /\ servers' = Append(servers, [state |-> "listening", port |-> preferred])
  /\ ppPc' = "closePreferred"
  /\ UNCHANGED <<preferred, isFree, addr, result, taken, heldAtZero>>
  /\ UNCHANGED <<supVars, migVars, uiVars, extVars, tailVars, logoutVars, topUpVars,
                 waitVars>>

\* line 89: listen(preferred) emitted 'error': resolve(false), and the
\* second promise creates its server and calls listen(0)
ListenPreferredError ==
  /\ ppPc = "listenPreferred"
  /\ preferred \in Bound
  /\ servers' = Append(servers, [state |-> "error", port |-> 0])
  /\ isFree' = FALSE
  /\ ppPc' = "listenZero"
  /\ UNCHANGED <<preferred, addr, result, taken, heldAtZero>>
  /\ UNCHANGED <<supVars, migVars, uiVars, extVars, tailVars, logoutVars, topUpVars,
                 waitVars>>

\* lines 91, 94-96: the close callback resolves true; return preferred
ClosePreferredDone ==
  /\ ppPc = "closePreferred"
  /\ servers' = [servers EXCEPT ![Len(servers)].state = "closed"]
  /\ isFree' = TRUE
  /\ result' = preferred
  /\ ppPc' = "returned"
  /\ UNCHANGED <<preferred, addr, taken, heldAtZero>>
  /\ UNCHANGED <<supVars, migVars, uiVars, extVars, tailVars, logoutVars, topUpVars,
                 waitVars>>

\* lines 100-101: listen(0) succeeded on p; addr = server.address()
ListenZeroOk ==
  /\ ppPc = "listenZero"
  /\ \E p \in EphemeralPorts \ Bound :
       /\ servers' = Append(servers, [state |-> "listening", port |-> p])
       /\ addr' = p
  /\ heldAtZero' = (preferred \in taken)
  /\ ppPc' = "closeZero"
  /\ UNCHANGED <<preferred, isFree, result, taken>>
  /\ UNCHANGED <<supVars, migVars, uiVars, extVars, tailVars, logoutVars, topUpVars,
                 waitVars>>

\* line 99: listen(0) emitted 'error': the promise rejects
ListenZeroError ==
  /\ ppPc = "listenZero"
  /\ EphemeralPorts \subseteq Bound
  /\ servers' = Append(servers, [state |-> "error", port |-> 0])
  /\ ppPc' = "rejected"
  /\ UNCHANGED <<preferred, isFree, addr, result, taken, heldAtZero>>
  /\ UNCHANGED <<supVars, migVars, uiVars, extVars, tailVars, logoutVars, topUpVars,
                 waitVars>>

CloseZeroDone_returnsPreferred ==
  /\ ppPc = "closeZero"
  /\ servers' = [servers EXCEPT ![Len(servers)].state = "closed"]
  /\ result' = preferred
  /\ ppPc' = "returned"
  /\ UNCHANGED <<preferred, isFree, addr, taken, heldAtZero>>
  /\ UNCHANGED <<supVars, migVars, uiVars, extVars, tailVars, logoutVars, topUpVars,
                 waitVars>>

\* lines 102-108: the close callback resolves addr.port (addr of a listening
\* TCP server is an AddressInfo, so the reject at line 104 is not taken)
CloseZeroDone ==
  /\ ppPc = "closeZero"
  /\ servers' = [servers EXCEPT ![Len(servers)].state = "closed"]
  /\ result' = addr
  /\ ppPc' = "returned"
  /\ UNCHANGED <<preferred, isFree, addr, taken, heldAtZero>>
  /\ UNCHANGED <<supVars, migVars, uiVars, extVars, tailVars, logoutVars, topUpVars,
                 waitVars>>

\* another process binds a port nobody holds
OtherBinds ==
  /\ ppPc \notin {"returned", "rejected"}
  /\ \E p \in Ports \ Bound : taken' = taken \cup {p}
  /\ UNCHANGED <<ppPc, preferred, servers, isFree, addr, result, heldAtZero>>
  /\ UNCHANGED <<supVars, migVars, uiVars, extVars, tailVars, logoutVars, topUpVars,
                 waitVars>>

\* another process releases a port
OtherReleases ==
  /\ ppPc \notin {"returned", "rejected"}
  /\ \E p \in taken : taken' = taken \ {p}
  /\ UNCHANGED <<ppPc, preferred, servers, isFree, addr, result, heldAtZero>>
  /\ UNCHANGED <<supVars, migVars, uiVars, extVars, tailVars, logoutVars, topUpVars,
                 waitVars>>

\* pickPort(preferred) was called: line 87 created the first server and
\* called listen
InitPort ==
  /\ MainIdle
  /\ ExtIdle
  /\ TailIdle
  /\ LogoutIdle
  /\ TopUpIdle
  /\ WaitIdle
  /\ ppPc = "listenPreferred"
  /\ preferred \in PreferredPorts
  /\ servers = <<>>
  /\ isFree = "unset"
  /\ addr = 0
  /\ result = 0
  /\ taken \in SUBSET Ports
  /\ heldAtZero = FALSE

NextPort ==
  \/ ListenPreferredOk
  \/ ListenPreferredError
  \/ ClosePreferredDone
  \/ ListenZeroOk
  \/ ListenZeroError
  \/ CloseZeroDone
  \/ OtherBinds
  \/ OtherReleases

SpecPort == InitPort /\ [][NextPort]_vars

\* no probe server is listening
ProbesClosed == \A i \in 1..Len(servers) : servers[i].state # "listening"

\* C22 as stated: pickPort returns preferred when it could bind it, and
\* otherwise the port the OS assigned to the port-0 bind, which is not
\* preferred; the probe server is closed when the port is returned.
C22_PickPortAsStated ==
  ppPc = "returned" =>
    /\ isFree = TRUE => result = preferred
    /\ isFree = FALSE => result = addr /\ result # preferred
    /\ ProbesClosed

\* C22 amended: as above, but the assigned port is known to differ from
\* preferred only if preferred was still held by another process at the
\* port-0 bind.
C22_PickPort ==
  ppPc = "returned" =>
    /\ isFree = TRUE => result = preferred
    /\ isFree = FALSE => /\ result = addr
                         /\ heldAtZero => result # preferred
    /\ ProbesClosed

\* preferred was held throughout, and the call returned the assigned port
C22_Witness ==
  /\ ppPc = "returned" /\ isFree = FALSE /\ heldAtZero
  /\ result = addr /\ result # preferred /\ preferred \in EphemeralPorts
  /\ Len(servers) = 2 /\ ProbesClosed

(***************************************************************************)
(* The child's stderr, chunk by chunk: text and whitespace, more of it     *)
(* than the tail buffer keeps.                                             *)
(***************************************************************************)
MaxWritten == 3    \* the most characters the child writes to stderr

ErrChars == {"a", " "}

\* lines 261-267: a 'data' event of child.stderr; stderrTail.push(String(chunk))
ChildWritesChunk ==
  /\ child.state = "running"
  /\ ~appExited
  /\ \E chunk \in SeqsUpTo(ErrChars, MaxChunk) \ {<<>>} :
       /\ Len(child.wrote) + Len(chunk) <= MaxWritten
       /\ child' = [child EXCEPT !.stderrTail = push(@, chunk, StderrBudget),
                                 !.wrote = @ \o chunk]
  /\ UNCHANGED <<pc, port, token, gatewayState, gateway, broadcasts, win,
                 elapsed, envVars, quitVars>>
  /\ UNCHANGED <<migVars, uiVars, auxVars>>

InitErr ==
  /\ MainIdle
  /\ ExtIdle
  /\ AuxIdle

NextErr ==
  \/ WhenReady
  \/ PickPreferredFree
  \/ CreateWindowOk
  \/ ProbeConnected
  \/ ProbeFailed
  \/ SleepDone
  \/ ChildListens
  \/ ChildExits
  \/ ChildWritesChunk

SpecErr == InitErr /\ [][NextErr]_vars

\* the step that sets the failed state
BecomesFailed == gatewayState.kind # "failed" /\ gatewayState'.kind = "failed"

\* what the tail buffer keeps of w
Retained(w) == Suffix(w, Min(Len(w), StderrBudget))

\* t is text, and it is the end of w without the whitespace around it
NonEmptyTailOf(t, w) ==
  /\ t # <<>> /\ t # Placeholder
  /\ \E n \in 1..Len(w) : t = trimChars(Suffix(w, n))

\* C23 as stated: a wait that ends without a connection sets the failed
\* state; its details name the log directory and, if the child wrote
\* anything to stderr, hold a non-empty tail of what it wrote.
C23_FailedDetailsAsStated ==
  /\ [](pc = "done" /\ gatewayState.kind # "ready" => gatewayState.kind = "failed")
  /\ [][BecomesFailed =>
          /\ gatewayState'.details.logsDir = LogsDir
          /\ child.wrote # <<>> =>
               NonEmptyTailOf(gatewayState'.details.tail, child.wrote)]_vars

\* C23 amended: the same, for a child whose retained stderr tail is not all
\* whitespace; the details then hold that tail, trimmed.
C23_FailedDetails ==
  /\ [](pc = "done" /\ gatewayState.kind # "ready" => gatewayState.kind = "failed")
  /\ [][BecomesFailed =>
          /\ gatewayState'.details.logsDir = LogsDir
          /\ trimChars(Retained(child.wrote)) # <<>> =>
               /\ NonEmptyTailOf(gatewayState'.details.tail, child.wrote)
               /\ gatewayState'.details.tail = trimChars(Retained(child.wrote))]_vars

\* the wait failed for a child that wrote more than the buffer keeps, with
\* whitespace after the text
C23_Witness ==
  /\ pc = "done" /\ gatewayState.kind = "failed"
  /\ child.wrote = <<"a", "a", " ">>
  /\ gatewayState.details.tail = <<"a">>
  /\ gatewayState.details.logsDir = LogsDir

(***************************************************************************)
(* AccountTab, signed in (mode paid, a jwt): the log-out button of the     *)
(* footer and the confirmation dialog.  A button with disabled set takes   *)
(* no click, and the dialog shows its buttons only while it is open.       *)
(***************************************************************************)
MaxLogouts == 2    \* the most handleLogout thunks dispatched
MaxEvents == 5     \* the most things the user does

LogoutToast == "Logged out. Sign in again anytime."

UserDid(e) ==
  /\ Len(events) < MaxEvents
  /\ events' = Append(events, e)

onLogout_dispatches ==
  /\ UserDid("logout")
  /\ Len(logoutCalls) < MaxLogouts
  /\ confirmLogoutOpen' = TRUE
  /\ logoutCalls' = Append(logoutCalls, [thunk |-> "pending", toast |-> "none"])
  /\ UNCHANGED <<logoutBusy>>
  /\ UNCHANGED <<supVars, migVars, uiVars, extVars, tailVars, ppVars, topUpVars,
                 waitVars>>

\* lines 92-94: the log-out button of the footer
onLogout ==
  /\ UserDid("logout")
  /\ confirmLogoutOpen' = TRUE
  /\ UNCHANGED <<logoutBusy, logoutCalls>>
  /\ UNCHANGED <<supVars, migVars, uiVars, extVars, tailVars, ppVars, topUpVars,
                 waitVars>>

\* lines 287-294: Cancel
ClickCancel ==
  /\ confirmLogoutOpen /\ ~logoutBusy
  /\ UserDid("cancel")
  /\ confirmLogoutOpen' = FALSE
  /\ UNCHANGED <<logoutBusy, logoutCalls>>
  /\ UNCHANGED <<supVars, migVars, uiVars, extVars, tailVars, ppVars, topUpVars,
                 waitVars>>

\* lines 276-279: the dialog's onClose
ModalClose ==
  /\ confirmLogoutOpen
  /\ UserDid("close")
  /\ confirmLogoutOpen' = IF logoutBusy THEN confirmLogoutOpen ELSE FALSE
  /\ UNCHANGED <<logoutBusy, logoutCalls>>
  /\ UNCHANGED <<supVars, migVars, uiVars, extVars, tailVars, ppVars, topUpVars,
                 waitVars>>

\* lines 295-302, 96-98: Log out; handleConfirmLogout up to its await
ClickConfirm ==
  /\ confirmLogoutOpen /\ ~logoutBusy
  /\ Len(logoutCalls) < MaxLogouts
  /\ UserDid("confirm")
  /\ logoutBusy' = TRUE
  /\ logoutCalls' = Append(logoutCalls, [thunk |-> "pending", toast |-> "none"])
  /\ UNCHANGED <<confirmLogoutOpen>>
  /\ UNCHANGED <<supVars, migVars, uiVars, extVars, tailVars, ppVars, topUpVars,
                 waitVars>>

LogoutPending ==
  /\ logoutCalls # <<>>
  /\ logoutCalls[Len(logoutCalls)].thunk = "pending"

\* lines 99-100, 103-105: unwrap() resolved
LogoutFulfilled ==
  /\ LogoutPending
  /\ logoutCalls' = [logoutCalls EXCEPT ![Len(logoutCalls)] =
                       [thunk |-> "fulfilled", toast |-> LogoutToast]]
  /\ confirmLogoutOpen' = FALSE
  /\ logoutBusy' = FALSE
  /\ UNCHANGED <<events>>
  /\ UNCHANGED <<supVars, migVars, uiVars, extVars, tailVars, ppVars, topUpVars,
                 waitVars>>

\* lines 101-105: unwrap() rejected
LogoutRejected ==
  /\ LogoutPending
  /\ logoutCalls' = [logoutCalls EXCEPT ![Len(logoutCalls)] =
                       [thunk |-> "rejected", toast |-> "error"]]
  /\ logoutBusy' = FALSE
  /\ UNCHANGED <<confirmLogoutOpen, events>>
  /\ UNCHANGED <<supVars, migVars, uiVars, extVars, tailVars, ppVars, topUpVars,
                 waitVars>>

InitLogout ==
  /\ MainIdle
  /\ ExtIdle
  /\ TailIdle
  /\ PickPortIdle
  /\ TopUpIdle
  /\ WaitIdle
  /\ confirmLogoutOpen = FALSE
  /\ logoutBusy = FALSE
  /\ logoutCalls = <<>>
  /\ events = <<>>

NextLogout ==
  \/ onLogout
  \/ ClickCancel
  \/ ModalClose
  \/ ClickConfirm
  \/ LogoutFulfilled
  \/ LogoutRejected

SpecLogout == InitLogout /\ [][NextLogout]_vars

Count(es, e) == Cardinality({i \in 1..Len(es) : es[i] = e})

MaxTopUps == 2     \* the most clicks on Top Up

NaN == [nan |-> TRUE, neg |-> FALSE, int |-> <<>>, frac |-> <<>>]

IsDigit(ch) == ch \in {"0", "1"}

\* the length of the longest run of digits of t that starts at index i
DigitRun(t, i) ==
  LET runs == {k \in 0..(Len(t) - i + 1) : \A j \in i..(i + k - 1) : IsDigit(t[j])}
  IN CHOOSE k \in runs : \A m \in runs : m <= k

\* Number.parseFloat: the longest prefix that is a decimal literal
parseFloat(t) ==
  LET signed == t # <<>> /\ t[1] \in {"-", "+"}
      start == IF signed THEN 2 ELSE 1
      nInt == DigitRun(t, start)
      dot == start + nInt <= Len(t) /\ t[start + nInt] = "."
      nFrac == IF dot THEN DigitRun(t, start + nInt + 1) ELSE 0
  IN IF nInt = 0 /\ nFrac = 0 THEN NaN
     ELSE [nan |-> FALSE,
           neg |-> signed /\ t[1] = "-",
           int |-> SubSeq(t, start, start + nInt - 1),
           frac |-> SubSeq(t, start + nInt + 1, start + nInt + nFrac)]

\* Number.isNaN
isNaN(n) == n.nan

IsZero(n) == \A i \in 1..Len(n.int \o n.frac) : (n.int \o n.frac)[i] = "0"

NotPositive_strict(n) ==
  n.neg /\ ~IsZero(n)

\* amount <= 0, for a number that is not NaN
NotPositive(n) ==
  n.neg \/ IsZero(n)

\* a valid floating-point number of HTML without an exponent: an optional
\* "-", then digits, or digits "." digits, or "." digits
ValidFloatingPoint(t) ==
  LET start == IF t # <<>> /\ t[1] = "-" THEN 2 ELSE 1
      nInt == DigitRun(t, start)
      dot == start + nInt <= Len(t) /\ t[start + nInt] = "."
      nFrac == IF dot THEN DigitRun(t, start + nInt + 1) ELSE 0
  IN /\ nInt + nFrac > 0
     /\ dot => nFrac > 0
     /\ Len(t) = (start - 1) + nInt + (IF dot THEN 1 + nFrac ELSE 0)

\* e.target.value of <input type="number">: what was typed, or "" when that
\* is not a valid floating-point number
inputValue(typed) == IF ValidFloatingPoint(typed) THEN typed ELSE <<>>

TypedTexts == {<<>>, <<"0">>, <<"1">>, <<"-", "1">>, <<".", "1">>,
               <<"0", ".", "0">>, <<"1", "x">>, <<"x">>, <<"1", ".">>, <<"-">>}

InitialAmount == <<"1", "0", ".", "0", "0">>

ValidationToast == "Enter a valid amount"

\* line 235: onChange of the amount input
ChangeAmount ==
  /\ \E typed \in TypedTexts : topUpAmount' = inputValue(typed)
  /\ UNCHANGED <<topUps, desktopApi>>
  /\ UNCHANGED <<supVars, migVars, uiVars, extVars, tailVars, ppVars, logoutVars,
                 waitVars>>

\* lines 118-126: handleTopUp up to its return or its first await
ClickTopUp ==
  /\ Len(topUps) < MaxTopUps
  /\ LET amount == parseFloat(topUpAmount)
     IN topUps' = Append(topUps,
          IF isNaN(amount) \/ NotPositive(amount)
          THEN [text |-> topUpAmount, dispatched |-> FALSE, amountUsd |-> NaN,
                thunk |-> "none", toast |-> ValidationToast,
                opened |-> "none", stage |-> "returned"]
          ELSE [text |-> topUpAmount, dispatched |-> TRUE, amountUsd |-> amount,
                thunk |-> "pending", toast |-> "none",
                opened |-> "none", stage |-> "awaitThunk"])
  /\ UNCHANGED <<topUpAmount, desktopApi>>
  /\ UNCHANGED <<supVars, migVars, uiVars, extVars, tailVars, ppVars, logoutVars,
                 waitVars>>

\* lines 126-132: unwrap() resolved with the checkout URL; open it
CheckoutFulfilled ==
  /\ \E i \in 1..Len(topUps) :
       /\ topUps[i].stage = "awaitThunk"
       /\ topUps' = [topUps EXCEPT ![i] =
            IF desktopApi = "openExternal"
            THEN [@ EXCEPT !.thunk = "fulfilled", !.opened = "openExternal",
                           !.stage = "awaitOpen"]
            ELSE [@ EXCEPT !.thunk = "fulfilled", !.opened = "window.open",
                           !.stage = "returned"]]
  /\ UNCHANGED <<topUpAmount, desktopApi>>
  /\ UNCHANGED <<supVars, migVars, uiVars, extVars, tailVars, ppVars, logoutVars,
                 waitVars>>

\* lines 133-135: unwrap() rejected
CheckoutRejected ==
  /\ \E i \in 1..Len(topUps) :
       /\ topUps[i].stage = "awaitThunk"
       /\ topUps' = [topUps EXCEPT ![i] =
            [@ EXCEPT !.thunk = "rejected", !.toast = "error",
                      !.stage = "returned"]]
  /\ UNCHANGED <<topUpAmount, desktopApi>>
  /\ UNCHANGED <<supVars, migVars, uiVars, extVars, tailVars, ppVars, logoutVars,
                 waitVars>>

\* line 129: openExternal resolved
OpenResolved ==
  /\ \E i \in 1..Len(topUps) :
       /\ topUps[i].stage = "awaitOpen"
       /\ topUps' = [topUps EXCEPT ![i] = [@ EXCEPT !.stage = "returned"]]
  /\ UNCHANGED <<topUpAmount, desktopApi>>
  /\ UNCHANGED <<supVars, migVars, uiVars, extVars, tailVars, ppVars, logoutVars,
                 waitVars>>

\* lines 129, 133-135: openExternal rejected
OpenRejected ==
  /\ \E i \in 1..Len(topUps) :
       /\ topUps[i].stage = "awaitOpen"
       /\ topUps' = [topUps EXCEPT ![i] =
            [@ EXCEPT !.toast = "error", !.stage = "returned"]]
  /\ UNCHANGED <<topUpAmount, desktopApi>>
  /\ UNCHANGED <<supVars, migVars, uiVars, extVars, tailVars, ppVars, logoutVars,
                 waitVars>>

InitTopUp ==
  /\ MainIdle
  /\ ExtIdle
  /\ TailIdle
  /\ PickPortIdle
  /\ LogoutIdle
  /\ WaitIdle
  /\ topUpAmount = InitialAmount
  /\ topUps = <<>>
  /\ desktopApi \in {"null", "openExternal"}

NextTopUp ==
  \/ ChangeAmount
  \/ ClickTopUp
  \/ CheckoutFulfilled
  \/ CheckoutRejected
  \/ OpenResolved
  \/ OpenRejected

SpecTopUp == InitTopUp /\ [][NextTopUp]_vars

\* the text is a number greater than zero
PositiveAmount(t) ==
  /\ ValidFloatingPoint(t)
  /\ t[1] # "-"
  /\ \E i \in 1..Len(t) : IsDigit(t[i]) /\ t[i] # "0"

\* C25: a top-up whose amount is not a number, or is zero or negative,
\* shows the validation message, dispatches no checkout thunk and opens no
\* URL; for a valid amount the thunk is dispatched and a URL is opened only
\* once it succeeded; a failed thunk is reported as an error and no URL is
\* opened.
C25_TopUpValidated ==
  \A i \in 1..Len(topUps) :
    LET call == topUps[i]
    IN /\ ~PositiveAmount(call.text) =>
            /\ call.toast = ValidationToast
            /\ ~call.dispatched /\ call.thunk = "none"
            /\ call.opened = "none"
       /\ PositiveAmount(call.text) =>
            /\ call.dispatched
            /\ call.toast # ValidationToast
            /\ call.opened # "none" => call.thunk = "fulfilled"
       /\ call.thunk = "rejected" => call.toast = "error" /\ call.opened = "none"

\* a top-up of zero was refused, and one of a valid amount failed
C25_Witness ==
  /\ Len(topUps) = 2
  /\ topUps[1].text = <<"0", ".", "0">> /\ topUps[1].toast = ValidationToast
  /\ topUps[2].text = <<".", "1">> /\ topUps[2].thunk = "rejected"
  /\ topUps[2].toast = "error" /\ topUps[2].opened = "none"

(***************************************************************************)
(* C26: the starting state is set and broadcast before the child is        *)
(* spawned: no child has been spawned while the state is still none.       *)
(***************************************************************************)
C26_StartingBeforeSpawn ==
  child.state = "running" => gatewayState.kind # "none"

(***************************************************************************)
(* waitForPortOpen by the clock: a connection attempt that succeeds does   *)
(* so some time after it began, before its 500 ms timeout.                 *)
(***************************************************************************)
\* 'connect' after d ticks: waitForPortOpen returns true; line 412
\* broadcasts ready
ProbeConnects ==
  /\ pc = "probing" /\ ~appExited
  /\ PortOpen
  /\ \E d \in ProbeDurations :
       /\ attemptAt' = elapsed
       /\ connectedAt' = elapsed + d
  /\ elapsed' = 0
  /\ broadcastGatewayState(Ready(port, token))
  /\ pc' = "done"
  /\ UNCHANGED <<port, token, gateway, win, child, envVars, quitVars>>
  /\ UNCHANGED <<migVars, uiPc, uiState, tailVars, ppVars, logoutVars, topUpVars,
                 extVars>>

InitWait ==
  /\ ProcessStart
  /\ AuxIdle
  /\ run = 1
  /\ orphans = {}
  /\ busy \in InitialBusy
  /\ configFile = AbsentFile
  /\ MigIdle
  /\ cfgFile = [shape |-> "absent", text |-> "json5", doc |-> NoDoc]
  /\ stateFile = [shape |-> "absent", configVersion |-> 0]

NextWait ==
  \/ WhenReady
  \/ PickPreferredFree
  \/ PickPreferredBusy
  \/ PickRandomOk
  \/ PickRandomFails
  \/ CreateWindowOk
  \/ ProbeConnects
  \/ ProbeFailed
  \/ SleepDone
  \/ ChildListens
  \/ ChildExits

SpecWait == InitWait /\ [][NextWait]_vars

\* the url of the ready state is the loopback host and the port of the
\* starting state
ReadyUrlIsStartingPort ==
  gatewayState.kind = "ready" =>
    /\ broadcasts[1].kind = "starting"
    /\ gatewayState.url = [host |-> "127.0.0.1", port |-> broadcasts[1].state.port]

C28_TerminationIdempotent ==
  /\ [][(BeforeQuit /\ gateway = "null") =>
          UNCHANGED <<child, gateway, gatewayState, broadcasts, port, token,
                      win, orphans, busy, configFile, pc>>]_vars
  /\ [](Count(child.sigs, "SIGTERM") <= 1)

\* a request took the handle and signalled the child once; the child is
\* still running and the next request is due
C28_Witness ==
  /\ quitPc = "done" /\ ~appExited
  /\ gateway = "null" /\ quitChild = "child"
  /\ child.state = "running"
  /\ child.sigs = <<"SIGTERM">>

(***************************************************************************)
(* What a run of the engine applied, against the marker it started from    *)
(***************************************************************************)
Versions(es) == [i \in 1..Len(es) |-> es[i].version]

IsPrefix(xs, ys) == Len(xs) <= Len(ys) /\ xs = SubSeq(ys, 1, Len(xs))

\* the members of a set of numbers, smallest first
RECURSIVE Ascending(_)
Ascending(S) ==
  IF S = {} THEN <<>>
  ELSE LET m == CHOOSE x \in S : \A y \in S : x <= y
       IN <<m>> \o Ascending(S \ {m})

\* the marker a run starts from, as the claims state it
MarkerOf(f) ==
  IF f.shape \in {"absent", "corrupt", "nonobject", "noversion"} THEN 0
  ELSE f.configVersion

\* the registered migrations above the marker of run k, lowest first
Due(k) == Ascending({m \in Registered : m > MarkerOf(runLog[k].startState)})

\* C29: the calls of apply in a run are, in order, the registered migrations
\* above the marker read at its start, lowest version first and each once;
\* they stop at the first that throws, and otherwise go through the whole
\* list (a run over a config file it cannot use calls none).
C29_AppliesPendingInOrder ==
  \A k \in 1..Len(runLog) :
    LET es == RunEntries(k)
    IN /\ IsPrefix(Versions(es), Due(k))
       /\ \A i, j \in 1..Len(es) : i < j => es[i].version < es[j].version
       /\ \A i \in 1..Len(es) : es[i].outcome = "threw" => i = Len(es)
       /\ runLog[k].startCfg.shape # "object" => es = <<>>
       /\ (/\ runLog[k].ended = "returned"
           /\ runLog[k].startCfg.shape = "object"
           /\ ~RunThrew(k)) => Versions(es) = Due(k)

\* the first run started from marker 1 and called the second migration only;
\* the second run, over the same config file, had nothing left to call
C29_Witness ==
  /\ mpc = "idle" /\ ThisRun = 2
  /\ MarkerOf(runLog[1].startState) = 1
  /\ Versions(RunEntries(1)) = <<2>>
  /\ runLog[1].ended = "returned"
  /\ runLog[2].startCfg.shape = "object"
  /\ runLog[2].ended = "returned"
  /\ RunEntries(2) = <<>>

\* C30: the marker a run reads is 0 when the marker file is missing,
\* unparsable, not a plain object or without a numeric configVersion, and
\* every registered migration is then pending; otherwise it is the stored
\* configVersion.
C30_MarkerDefaultsToZero ==
  /\ mpc # "idle" =>
       LET f == runLog[ThisRun].startState
       IN /\ currentVersion = MarkerOf(f)
          /\ f.shape # "version" =>
               /\ currentVersion = 0
               /\ Versions(Completed(ThisRun)) \o pending = DESKTOP_CONFIG_MIGRATIONS
  /\ \A k \in 1..Len(runLog) :
       (/\ runLog[k].startState.shape # "version"
        /\ runLog[k].startCfg.shape = "object"
        /\ runLog[k].ended = "returned")
       => /\ RunEntries(k) # <<>>
          /\ RunEntries(k)[1].version = DESKTOP_CONFIG_MIGRATIONS[1]

\* a run that found an object whose configVersion is not a number
C30_Witness ==
  /\ mpc = "apply"
  /\ runLog[ThisRun].startState = [shape |-> "noversion", configVersion |-> 2]
  /\ currentVersion = 0
  /\ pending = DESKTOP_CONFIG_MIGRATIONS
  /\ applyLog = <<>>

\* everything but the parts that follow
baseVars == <<supVars, migVars, uiVars, tailVars, ppVars, logoutVars, topUpVars,
              waitVars>>

BaseIdle ==
  /\ MainIdle
  /\ TailIdle
  /\ PickPortIdle
  /\ LogoutIdle
  /\ TopUpIdle
  /\ WaitIdle

(***************************************************************************)
(* One registered migration called on its own: apply is handed a document  *)
(* object and called again on the same object, as a retry does.            *)
(***************************************************************************)
MaxCalls == 2      \* the most calls of apply on one document

\* migration.apply(cfg), lines 35-58 and 63-68
CallApply ==
  /\ applyVersion \in Registered
  /\ Len(applyCalls) < MaxCalls
  /\ LET r == apply(applyVersion, applyDoc)
     IN /\ applyDoc' = r.cfg
        /\ applyCalls' = Append(applyCalls,
                           [before |-> applyDoc, after |-> r.cfg,
                            threw |-> r.threw, ret |-> r.ret])
  /\ UNCHANGED applyVersion
  /\ UNCHANGED <<baseVars, navVars, hookVars, wizVars>>

InitApply ==
  /\ BaseIdle
  /\ NavIdle
  /\ HookIdle
  /\ WizIdle
  /\ applyVersion \in Registered
  /\ applyDoc \in Documents
  /\ applyCalls = <<>>

NextApply ==
  \/ CallApply

SpecApply == InitApply /\ [][NextApply]_vars

(***************************************************************************)
(* C31: the boolean a migration returns is accurate: a call of apply that  *)
(* returns has returned true exactly when the document it leaves behind    *)
(* differs from the document it was handed.                                *)
(***************************************************************************)
C31_ResultAccurate ==
  \A i \in 1..Len(applyCalls) :
     LET c == applyCalls[i]
     IN ~c.threw => (c.ret <=> c.after # c.before)

(***************************************************************************)
(* C32: every migration is idempotent.  As stated: every call of apply     *)
(* after the first returns false and leaves the document as the first      *)
(* call left it.                                                           *)
(***************************************************************************)
C32_IdempotentAsStated ==
  \A i \in 2..Len(applyCalls) :
     /\ ~applyCalls[i].threw
     /\ ~applyCalls[i].ret
     /\ applyCalls[i].after = applyCalls[1].after

\* C32, amended: when the first call of apply on a document returned, every
\* later call returns false and leaves the document as the first call left
\* it; when the first call threw, every later call throws as well and
\* leaves the document as the first call left it.
C32_Idempotent ==
  \A i \in 2..Len(applyCalls) :
     /\ applyCalls[i].after = applyCalls[1].after
     /\ applyCalls[i].threw = applyCalls[1].threw
     /\ ~applyCalls[i].ret

\* a migration was called again on the document its first call had changed
C32_Witness ==
  /\ Len(applyCalls) = 2
  /\ applyCalls[1].ret
  /\ applyCalls[1].after # applyCalls[1].before
  /\ ~applyCalls[2].threw
  /\ applyCalls[2].before = applyCalls[1].after

(***************************************************************************)
(* App: the effect that navigates on the gateway state, and the <Navigate> *)
(* elements of its route tables.  A render whose state or pathname changed *)
(* is followed by its effects, the route element's before the App's own;   *)
(* both read the pathname of that render.  Updates that arrive before the  *)
(* render are batched into it.                                             *)
(***************************************************************************)
MaxUserNavs == 2   \* the most clicks on the links of the Topbar

\* mutant: every path counts as a bootstrap path
isBootstrapPath_anyPath(p) ==
  TRUE

\* routes.ts, and the same test at line 219 of the effect
isBootstrapPath(p) ==
  p = "/" \/ p = "/loading" \/ p = "/error"

\* the hrefs of the Topbar
TopbarLinks == {"/legacy", "/chat", "/wizard", "/settings"}

NoNav == ""

\* the <Navigate replace> element the route table renders at p, if any
RouteRedirect(st, p) ==
  IF st = "ready"
  THEN IF p \in {"/loading", "/welcome", "/legacy", "/chat", "/wizard", "/settings"}
       THEN NoNav ELSE "/legacy"
  ELSE IF p = "/loading" \/ (p = "/error" /\ st = "failed")
       THEN NoNav ELSE "/loading"

\* the path the App's effect navigates to, if it navigates
EffectTarget(st, p, did, onb) ==
  CASE st = "none" -> NoNav
    [] st = "ready" ->
         IF did THEN NoNav
         ELSE IF isBootstrapPath(p)
              THEN (IF onb THEN "/legacy" ELSE "/welcome")
              ELSE NoNav
    [] st = "failed" -> "/error"
    [] st = "starting" -> "/loading"

NavEntry(by, to) == [by |-> by, st |-> appState, from |-> pathname, to |-> to]

KindRank(k) == CASE k = "none" -> 0 [] k = "starting" -> 1 [] OTHER -> 2

\* setState(info.state ?? null) or setState(next) in useGatewayState
SetState ==
  /\ \E next \in {"starting", "ready", "failed"} :
       /\ KindRank(next) > KindRank(appState)
       /\ appState' = next
  /\ effectDue' = TRUE
  /\ UNCHANGED <<pathname, didAutoNavRef, onboarded, navLog>>
  /\ UNCHANGED <<baseVars, applyVars, hookVars, wizVars>>

\* the user clicks a link of the Topbar
ClickLink ==
  /\ Cardinality({i \in DOMAIN navLog : navLog[i].by = "user"}) < MaxUserNavs
  /\ \E to \in TopbarLinks :
       /\ pathname' = to
       /\ navLog' = Append(navLog, NavEntry("user", to))
       /\ effectDue' = (effectDue \/ to # pathname)
  /\ UNCHANGED <<appState, didAutoNavRef, onboarded>>
  /\ UNCHANGED <<baseVars, applyVars, hookVars, wizVars>>

\* the effects of one render: <Navigate>'s, then lines 207-235
RunEffects ==
  /\ effectDue
  /\ LET r == RouteRedirect(appState, pathname)
         a == EffectTarget(appState, pathname, didAutoNavRef, onboarded)
         viaRoute == IF r = NoNav THEN <<>> ELSE <<NavEntry("route", r)>>
         viaApp == IF a = NoNav THEN <<>> ELSE <<NavEntry(appState, a)>>
     IN /\ navLog' = navLog \o viaRoute \o viaApp
        /\ pathname' = IF a # NoNav THEN a ELSE IF r # NoNav THEN r ELSE pathname
        /\ didAutoNavRef' = (didAutoNavRef \/ (appState = "ready" /\ a # NoNav))
        /\ effectDue' = (pathname' # pathname)
  /\ UNCHANGED <<appState, onboarded>>
  /\ UNCHANGED <<baseVars, applyVars, hookVars, wizVars>>

\* the first render of the page, at "/" and without a state
InitNav ==
  /\ BaseIdle
  /\ ApplyIdle
  /\ HookIdle
  /\ WizIdle
  /\ appState = "none"
  /\ pathname = "/"
  /\ didAutoNavRef = FALSE
  /\ onboarded \in BOOLEAN
  /\ effectDue = TRUE
  /\ navLog = <<>>

NextNav ==
  \/ SetState
  \/ ClickLink
  \/ RunEffects

SpecNav == InitNav /\ [][NextNav]_vars

NavsBy(by) == {i \in DOMAIN navLog : navLog[i].by = by}

(***************************************************************************)
(* C33: the App navigates on the ready state at most once in the life of   *)
(* the page, and only from "/", "/loading" or "/error"; once the state is  *)
(* ready, nothing but the user moves the page after a click of the user;   *)
(* on starting the effect navigates to "/loading" and on failed to         *)
(* "/error", and the page rests there.                                     *)
(***************************************************************************)
C33_AutoNavOnce ==
  /\ Cardinality(NavsBy("ready")) <= 1
  /\ \A i \in NavsBy("ready") :
       /\ navLog[i].from \in {"/", "/loading", "/error"}
       /\ navLog[i].to = IF onboarded THEN "/legacy" ELSE "/welcome"
  /\ \A j \in NavsBy("user") :
       navLog[j].st = "ready" =>
          \A k \in DOMAIN navLog : k > j => navLog[k].by = "user"
  /\ \A i \in NavsBy("starting") : navLog[i].to = "/loading"
  /\ \A i \in NavsBy("failed") : navLog[i].to = "/error"
  /\ ~effectDue /\ appState = "starting" => pathname = "/loading"
  /\ ~effectDue /\ appState = "failed" => pathname = "/error"

\* ready moved the page off a bootstrap path, the user then went to the chat
\* and the page stayed there
C33_Witness ==
  /\ ~effectDue
  /\ appState = "ready"
  /\ pathname = "/chat"
  /\ \E i \in NavsBy("ready"), j \in NavsBy("user") :
       /\ i < j
       /\ j = Len(navLog)
       /\ navLog[j].to = "/chat"

(***************************************************************************)
(* C34: at most one gateway child spawned by the supervisor is alive at    *)
(* any time, the children of earlier runs of a retried application         *)
(* included: when a run has a running child, no child of an earlier run is *)
(* still alive.                                                            *)
(***************************************************************************)
C34_SingleChild ==
  /\ Cardinality(orphans) <= 1
  /\ child.state = "running" => orphans = {}

(***************************************************************************)
(* C35: once a run has resolved the token and ensured the config file, the *)
(* token it carries in the gateway states and hands to the child is the    *)
(* value of gateway.auth.token in the config file on disk.                 *)
(***************************************************************************)
C35_TokenMatchesFile ==
  token # "" =>
     /\ configFile.shape = "object"
     /\ configFile.token = token
     /\ child.state # "none" => child.envToken = configFile.token

(***************************************************************************)
(* C36: the config document is written before the marker.  Wherever a run  *)
(* stands or was stopped, a marker that this run has put on disk names no  *)
(* migration whose change to the document is missing from the config file  *)
(* (when a migration of the run reported a change, the file holds the      *)
(* document they left); and the run that follows a run that was stopped    *)
(* calls the migrations above the marker it finds.                         *)
(***************************************************************************)
MarkerTouched(k) == k = ThisRun /\ stateFile # runLog[k].startState

C36_NothingNamedUnwritten ==
  \A k \in 1..Len(runLog) :
     MarkerTouched(k) /\ stateFile.shape = "version" =>
        IF AnyChanged(Completed(k))
        THEN cfgFile = stringifyConfig(
                          AfterCompleted(Completed(k), runLog[k].startCfg.doc))
        ELSE cfgFile = runLog[k].startCfg

C36_NextRunReapplies ==
  \A k \in 1..Len(runLog) :
     (/\ k > 1
      /\ runLog[k - 1].ended = "crashed"
      /\ runLog[k].ended = "returned"
      /\ ~RunThrew(k)) => Versions(RunEntries(k)) = Due(k)

C36_ConfigBeforeMarker ==
  /\ C36_NothingNamedUnwritten
  /\ C36_NextRunReapplies

(***************************************************************************)
(* C37: whenever the supervisor's state is ready the supervised child is   *)
(* still running: the state does not stay at ready after the child exited. *)
(***************************************************************************)
C37_ReadyMeansRunning ==
  gatewayState.kind = "ready" => child.state = "running"

(***************************************************************************)
(* useGatewayState in a component that can unmount.  The effect starts an  *)
(* async function that awaits getGatewayInfo and then subscribes; the      *)
(* cleanup sets cancelled and calls unsub if it is set.  The reply and the *)
(* "gateway-state" events reach the page whether or not the component is   *)
(* still mounted.                                                          *)
(***************************************************************************)
MaxDelivered == 3  \* the most "gateway-state" events that reach the page

StateKinds == {"starting", "ready", "failed"}

SetCall(k) == [state |-> k, unmounted |-> cancelled]

\* await api.getGatewayInfo() resolves: lines 82-88
ReplyArrives ==
  /\ hookPc = "awaiting"
  /\ \E k \in StateKinds \cup {"none"} :
       setCalls' = IF ~cancelled THEN Append(setCalls, SetCall(k)) ELSE setCalls
  /\ unsub' = "set"
  /\ listeners' = listeners + 1
  /\ hookPc' = "subscribed"
  /\ UNCHANGED <<cancelled, delivered>>
  /\ UNCHANGED <<baseVars, applyVars, navVars, wizVars>>

\* the cleanup of the effect: lines 91-94
Unmount ==
  /\ hookPc # "idle"
  /\ ~cancelled
  /\ cancelled' = TRUE
  /\ listeners' = IF unsub = "set" THEN listeners - 1 ELSE listeners
  /\ UNCHANGED <<hookPc, unsub, delivered, setCalls>>
  /\ UNCHANGED <<baseVars, applyVars, navVars, wizVars>>

\* a "gateway-state" event: every registered handler calls setState(next)
PushArrives ==
  /\ hookPc # "idle"
  /\ delivered < MaxDelivered
  /\ delivered' = delivered + 1
  /\ \E k \in StateKinds :
       setCalls' = IF listeners > 0 THEN Append(setCalls, SetCall(k)) ELSE setCalls
  /\ UNCHANGED <<hookPc, cancelled, unsub, listeners>>
  /\ UNCHANGED <<baseVars, applyVars, navVars, wizVars>>

\* the component has mounted and its effect has called getGatewayInfo
InitHook ==
  /\ BaseIdle
  /\ ApplyIdle
  /\ NavIdle
  /\ WizIdle
  /\ hookPc = "awaiting"
  /\ cancelled = FALSE
  /\ unsub = "null"
  /\ listeners = 0
  /\ delivered = 0
  /\ setCalls = <<>>

NextHook ==
  \/ ReplyArrives
  \/ Unmount
  \/ PushArrives

SpecHook == InitHook /\ [][NextHook]_vars

(***************************************************************************)
(* C38: once the component has unmounted, none of the listeners its hook   *)
(* registered remains and its state is not set again, whether the unmount  *)
(* comes before or after the reply to getGatewayInfo.                      *)
(***************************************************************************)
C38_UnmountCleansUp ==
  cancelled =>
     /\ listeners = 0
     /\ \A i \in 1..Len(setCalls) : ~setCalls[i].unmounted

(***************************************************************************)
(* WelcomePage: the wizard.  A click on Next runs next(): the save action  *)
(* of the current step, then setStep; an exception of the save action is   *)
(* caught by next() and shown.  A save action's requests (the preload      *)
(* bridge, config.get, config.set, config.patch) are answered or fail.     *)
(***************************************************************************)
StepIds == <<"config", "anthropic", "telegramToken", "telegramUser", "done">>
InputSteps == {"anthropic", "telegramToken", "telegramUser"}
FieldTexts == {"", "  ", "tokA"}

StepIndex(s) == CHOOSE i \in 1..Len(StepIds) : StepIds[i] = s

Required(s) ==
  CASE s = "anthropic" -> "Anthropic API key is required."
    [] s = "telegramToken" -> "Telegram bot token is required."
    [] s = "telegramUser" -> "Telegram user id is required."

\* what a save action did: it returned or threw, the error it set, and
\* whether its requests were sent and answered
\* ensureExtendedConfig, lines 82-153
ensureExtendedConfig(answered) ==
  IF answered THEN [threw |-> FALSE, error |-> "null", saved |-> TRUE]
  ELSE [threw |-> TRUE, error |-> "Error: request failed", saved |-> FALSE]

\* saveAnthropic, saveTelegramToken and saveTelegramAllowFrom: lines 154-198,
\* 200-231 and 233-280
saveInput(s, text, answered) ==
  IF trim(text) = ""
  THEN [threw |-> FALSE, error |-> Required(s), saved |-> FALSE]
  ELSE IF answered THEN [threw |-> FALSE, error |-> "null", saved |-> TRUE]
  ELSE [threw |-> TRUE, error |-> "Error: request failed", saved |-> FALSE]

\* onChange of the input of the current step
TypeField ==
  /\ pathname = "/welcome"
  /\ step \in InputSteps
  /\ \E text \in FieldTexts :
       /\ text # fields[step]
       /\ fields' = [fields EXCEPT ![step] = text]
  /\ UNCHANGED <<step, error, saved>>
  /\ UNCHANGED <<baseVars, applyVars, navVars, hookVars>>

\* a click on Next: next(), lines 282-312
ClickNext ==
  /\ pathname = "/welcome"
  /\ step # "done"
  /\ \E answered \in BOOLEAN :
       LET r == IF step = "config" THEN ensureExtendedConfig(answered)
                ELSE saveInput(step, fields[step], answered)
       IN /\ error' = r.error
          /\ saved' = IF r.saved THEN saved \cup {step} ELSE saved
          /\ fields' = IF r.saved /\ step \in InputSteps
                       THEN [fields EXCEPT ![step] = ""] ELSE fields
          /\ step' = IF r.threw THEN step ELSE StepIds[StepIndex(step) + 1]
          /\ onboarded' = (onboarded \/ (~r.threw /\ step = "telegramUser"))
  /\ UNCHANGED <<appState, pathname, didAutoNavRef, effectDue, navLog>>
  /\ UNCHANGED <<baseVars, applyVars, hookVars>>

\* a click on "Go to dashboard": next() at the step done
ClickGoToDashboard ==
  /\ pathname = "/welcome"
  /\ step = "done"
  /\ pathname' = "/legacy"
  /\ UNCHANGED <<appState, didAutoNavRef, onboarded, effectDue, navLog>>
  /\ UNCHANGED <<baseVars, applyVars, hookVars, wizVars>>

\* a click on Skip: lines 449-456
ClickSkip ==
  /\ pathname = "/welcome"
  /\ onboarded' = TRUE
  /\ pathname' = "/legacy"
  /\ saved' = saved \cup {"skip"}
  /\ UNCHANGED <<step, error, fields>>
  /\ UNCHANGED <<appState, didAutoNavRef, effectDue, navLog>>
  /\ UNCHANGED <<baseVars, applyVars, hookVars>>

\* the welcome page as the App first shows it: not onboarded, at /welcome
InitWiz ==
  /\ BaseIdle
  /\ ApplyIdle
  /\ HookIdle
  /\ appState = "ready"
  /\ pathname = "/welcome"
  /\ didAutoNavRef = TRUE
  /\ onboarded = FALSE
  /\ effectDue = FALSE
  /\ navLog = <<>>
  /\ WizIdle

NextWiz ==
  \/ TypeField
  \/ ClickNext
  \/ ClickGoToDashboard
  \/ ClickSkip

SpecWiz == InitWiz /\ [][NextWiz]_vars

(***************************************************************************)
(* C39: the wizard stands at a step only when the save action of every     *)
(* step before it succeeded (a step with an empty input or a failed        *)
(* request is not left), and the onboarded flag is set only by completing  *)
(* the telegramUser step or by Skip.                                       *)
(***************************************************************************)
C39_AdvancesOnlyOnSuccess ==
  /\ \A i \in 1..Len(StepIds) : i < StepIndex(step) => StepIds[i] \in saved
  /\ onboarded => ("telegramUser" \in saved \/ "skip" \in saved)

====
